---------------------------- MODULE Spec2Model ----------------------------
(***************************************************************************)
(* A model of zostay/gordy: the buffered speculative cursor (parser.Input, *)
(* parser.Buffer, parser.Reader) and the matcher combinators built on it.  *)
(*                                                                         *)
(* The heap is explicit.  An Input is a record [parent, r]: parent is the  *)
(* index of the parent Input (0 for nil) and r is the address of its       *)
(* *Reader.  Readers are kept apart from the Inputs because Keep assigns   *)
(* Reader pointers (p.parent.r = p.r), so two Inputs can share one Reader. *)
(* The bufio.Reader under the Buffer is the pair (stream, start): the      *)
(* whole source and the number of bytes already discarded from it.         *)
(***************************************************************************)
EXTENDS Integers, Sequences, FiniteSets, TLC

VARIABLES
    stream,     \* the bytes the io.Reader source delivers, first to last
    start,      \* bytes of the source bufio.Reader.Discard has dropped
    size,       \* the size of the bufio.Reader's buffer
    inputs,     \* heap of *Input: inputs[1] is the root made by New
    readers,    \* heap of *Reader: readers[a] is the field n of reader a
    panicked,   \* a Go run-time panic has ended the program
    done,       \* Inputs on which Keep or Discard has been called
    clean,      \* no Input was used again after its own Keep or Discard
    steps,      \* calls made so far
    gos,        \* the Buffer's lock and the goroutines driving cursors
    prevTag,    \* token's package variable prevTag
    issued,     \* the Tags NextTag has returned, first to last
    trip,       \* the fork being read and abandoned, and what it read
    feed,       \* the two bufio.Readers NewSize puts over the one source
    loop,       \* the Many or ManyWithSep in progress: where its loop is
    last        \* the last call: its arguments, the state before, the result

vars == <<stream, start, size, inputs, readers, panicked, done, clean, steps, gos,
          prevTag, issued, trip, feed, loop, last>>

---------------------------------------------------------------------------
(* Bounds of the model. *)

MaxStream == 3
MaxInputs == 3
MaxSteps == 5
MaxRead == 2
MaxRunes == 1
MaxPrep == 2

(* The bytes of the modelled sources: 'a', the two-byte lead 0xC3 and the  *)
(* continuation byte 0xA9 (0xC3 0xA9 is U+00E9).                           *)
Alphabet == {97, 195, 169}

---------------------------------------------------------------------------
(* Sequences. *)

Min(a, b) == IF a < b THEN a ELSE b

Drop(s, k) == IF k >= Len(s) THEN << >> ELSE SubSeq(s, k + 1, Len(s))

Take(s, k) == IF k >= Len(s) THEN s ELSE SubSeq(s, 1, k)

RECURSIVE SeqsUpTo(_)
SeqsUpTo(k) ==
    IF k = 0 THEN {<< >>}
    ELSE LET shorter == SeqsUpTo(k - 1)
         IN  shorter \cup {Append(s, b) : s \in {t \in shorter : Len(t) = k - 1}, b \in Alphabet}

---------------------------------------------------------------------------
(* unicode/utf8, as parser.Buffer.peekRunes uses it. *)

RuneSelf == 128
RuneError == 65533

\* the size field of utf8's first[] table (x&7): 0 for ASCII, 1 for an
\* invalid first byte
FirstSize(b) ==
    IF b < 128 THEN 0
    ELSE IF b \in 194..223 THEN 2
    ELSE IF b \in 224..239 THEN 3
    ELSE IF b \in 240..244 THEN 4
    ELSE 1

AcceptLo(b) == IF b = 224 THEN 160 ELSE IF b = 240 THEN 144 ELSE 128

AcceptHi(b) == IF b = 237 THEN 159 ELSE IF b = 244 THEN 143 ELSE 191

IsCont(b) == b \in 128..191

FullRune(p) ==
    IF Len(p) = 0 THEN FALSE
    ELSE IF Len(p) >= FirstSize(p[1]) THEN TRUE
    ELSE IF Len(p) > 1 /\ (p[2] < AcceptLo(p[1]) \/ AcceptHi(p[1]) < p[2]) THEN TRUE
    ELSE IF Len(p) > 2 /\ ~IsCont(p[3]) THEN TRUE
    ELSE FALSE

\* [r |-> the rune, n |-> its width in bytes]
DecodeRune(p) ==
    IF Len(p) < 1 THEN [r |-> RuneError, n |-> 0]
    ELSE IF p[1] < 128 THEN [r |-> p[1], n |-> 1]
    ELSE IF FirstSize(p[1]) = 1 THEN [r |-> RuneError, n |-> 1]
    ELSE IF Len(p) < FirstSize(p[1]) THEN [r |-> RuneError, n |-> 1]
    ELSE IF p[2] < AcceptLo(p[1]) \/ AcceptHi(p[1]) < p[2] THEN [r |-> RuneError, n |-> 1]
    ELSE IF FirstSize(p[1]) = 2
         THEN [r |-> (p[1] % 32) * 64 + (p[2] % 64), n |-> 2]
    ELSE IF ~IsCont(p[3]) THEN [r |-> RuneError, n |-> 1]
    ELSE IF FirstSize(p[1]) = 3
         THEN [r |-> (p[1] % 16) * 4096 + (p[2] % 64) * 64 + (p[3] % 64), n |-> 3]
    ELSE IF ~IsCont(p[4]) THEN [r |-> RuneError, n |-> 1]
    ELSE [r |-> (p[1] % 8) * 262144 + (p[2] % 64) * 4096 + (p[3] % 64) * 64 + (p[4] % 64),
          n |-> 4]

\* []byte(string(rune)): the UTF-8 encoding of one rune
EncodeRune(r) ==
    IF r < 0 \/ r > 1114111 \/ r \in 55296..57343 THEN <<239, 191, 189>>
    ELSE IF r < 128 THEN <<r>>
    ELSE IF r < 2048 THEN <<192 + (r \div 64), 128 + (r % 64)>>
    ELSE IF r < 65536
         THEN <<224 + (r \div 4096), 128 + ((r \div 64) % 64), 128 + (r % 64)>>
    ELSE <<240 + (r \div 262144), 128 + ((r \div 4096) % 64),
           128 + ((r \div 64) % 64), 128 + (r % 64)>>

RECURSIVE EncodeRunes(_)
EncodeRunes(rs) ==
    IF rs = << >> THEN << >> ELSE EncodeRune(Head(rs)) \o EncodeRunes(Tail(rs))

---------------------------------------------------------------------------
(* bufio.Reader under the Buffer.  st is a heap state                      *)
(* [inputs, readers, start]; the source itself never changes.              *)

\* the size bufio.NewReader gives the buffer made by NewBuffer
DefaultBufSize == 4096

\* the least size bufio.NewReaderSize gives a buffer
MinReadBufferSize == 16

\* NewBufferSize(r, sz): the size of the buffer of the bufio.Reader made
NewBufferSize(sz) == IF sz < MinReadBufferSize THEN MinReadBufferSize ELSE sz

Avail(st) == Len(stream) - st.start

\* bufio.Reader.Peek(n): the next n bytes without consuming them; fewer,
\* with an error, when the source ends first or n exceeds the buffer
BufioPeek(st, n) ==
    IF n > size
    THEN [bytes |-> Take(Drop(stream, st.start), size), err |-> "ErrBufferFull"]
    ELSE IF Avail(st) < n
    THEN [bytes |-> Drop(stream, st.start), err |-> "EOF"]
    ELSE [bytes |-> SubSeq(stream, st.start + 1, st.start + n), err |-> "nil"]

\* bufio.Reader.Discard(n): skips n bytes, or what is left of the source
BufioDiscard(st, n) == [st EXCEPT !.start = st.start + Min(n, Avail(st))]

---------------------------------------------------------------------------
(* parser.Buffer and parser.Reader.  Where a function works on the result  *)
(* of a call, the model passes that result to a second definition, named   *)
(* ...Got, that holds the rest of the function.                            *)

\* Buffer.peek, after pbs, err := b.r.Peek(off + len(p))
BufferPeekGot(pk, off, len) ==
    IF pk.err # "nil"
    THEN [n |-> 0, bytes |-> << >>, err |-> pk.err]
    ELSE [n |-> Len(Drop(pk.bytes, off)),
          bytes |-> Take(Drop(pk.bytes, off), len),
          err |-> "nil"]

\* Buffer.peek(off, p) with len(p) = len: [n, bytes, err]
BufferPeek(st, off, len) ==
    IF len = 0 THEN [n |-> 0, bytes |-> << >>, err |-> "nil"]
    ELSE BufferPeekGot(BufioPeek(st, off + len), off, len)

\* Buffer.discard(n)
BufferDiscard(st, n) == BufioDiscard(st, n)

RECURSIVE PeekRunesLoop(_, _, _, _, _, _, _, _)

\* Buffer.peekRunes, the default case of the switch, after the second
\* pbs, err = b.r.Peek(off + total + len(p) - i)
PeekRunesMore(pk, st, off, cnt, i, pbs, total, rs) ==
    IF pk.err # "nil" /\ ~(Len(pk.bytes) > 0 /\ pk.err = "EOF")
    THEN [n |-> 0, rs |-> rs, err |-> pk.err]
    ELSE IF Len(pk.bytes) < off + total
    THEN [n |-> 0, rs |-> rs, err |-> "panic"]
    ELSE PeekRunesLoop(st, off, cnt, i, pbs \o Drop(pk.bytes, off + total),
                       total, pk.err = "EOF", rs)

\* the inner "for" of Buffer.peekRunes.  Its "break"s leave the switch, not
\* the loop, so the loop ends only by a return or by the index pbs[0]
\* running off the slice; i therefore never moves past its first value.
\* rs is the caller's slice p, pbs the undecoded bytes.
PeekRunesLoop(st, off, cnt, i, pbs, total, atEof, rs) ==
    IF pbs = << >>
    THEN [n |-> 0, rs |-> rs, err |-> "panic"]
    ELSE IF pbs[1] < RuneSelf
    THEN PeekRunesLoop(st, off, cnt, i, Tail(pbs), total + 1, atEof,
                       [rs EXCEPT ![i + 1] = pbs[1]])
    ELSE IF FullRune(pbs)
    THEN PeekRunesLoop(st, off, cnt, i, Drop(pbs, DecodeRune(pbs).n),
                       total + DecodeRune(pbs).n, atEof,
                       [rs EXCEPT ![i + 1] = DecodeRune(pbs).r])
    ELSE IF atEof
    THEN [n |-> total + DecodeRune(pbs).n,
          rs |-> [rs EXCEPT ![i + 1] = DecodeRune(pbs).r],
          err |-> "nil"]
    ELSE PeekRunesMore(BufioPeek(st, off + total + cnt - i),
                       st, off, cnt, i, pbs, total, rs)

\* Buffer.peekRunes, after the first pbs, err := b.r.Peek(off + len(p))
PeekRunesGot(pk, st, off, cnt) ==
    IF pk.err # "nil" /\ ~(Len(pk.bytes) > 0 /\ pk.err = "EOF")
    THEN [n |-> 0, rs |-> [j \in 1..cnt |-> 0], err |-> pk.err]
    ELSE IF Len(pk.bytes) < off
    THEN [n |-> 0, rs |-> [j \in 1..cnt |-> 0], err |-> "panic"]
    ELSE PeekRunesLoop(st, off, cnt, 0, Drop(pk.bytes, off), 0, pk.err = "EOF",
                       [j \in 1..cnt |-> 0])

\* Buffer.peekRunes(off, p) with len(p) = cnt: [n, rs, err]; n counts bytes
BufferPeekRunes(st, off, cnt) ==
    IF cnt = 0 THEN [n |-> 0, rs |-> << >>, err |-> "nil"]
    ELSE PeekRunesGot(BufioPeek(st, off + cnt), st, off, cnt)

\* Buffer.Collect(r)
BufferCollect(st, a) == BufferDiscard(st, st.readers[a])

\* Reader.Clone(): a new Reader with the same n; [st, a]
ReaderClone(st, a) ==
    [st |-> [st EXCEPT !.readers = Append(st.readers, st.readers[a])],
     a |-> Len(st.readers) + 1]

\* Reader.Read, after n, err = r.buf.peek(r.n, p)
ReaderReadGot(pr, st, a) ==
    [st |-> [st EXCEPT !.readers[a] = st.readers[a] + pr.n],
     n |-> pr.n, bytes |-> pr.bytes, err |-> pr.err]

\* Reader.Read(p): [st, n, bytes, err]
ReaderRead(st, a, len) == ReaderReadGot(BufferPeek(st, st.readers[a], len), st, a)

\* Reader.ReadRunes, after n, err = r.buf.peekRunes(r.n, p)
ReaderReadRunesGot(pr, st, a) ==
    [st |-> IF pr.err = "panic" THEN st
            ELSE [st EXCEPT !.readers[a] = st.readers[a] + pr.n],
     n |-> pr.n, rs |-> pr.rs, err |-> pr.err]

\* Reader.ReadRunes(p): [st, n, rs, err]
ReaderReadRunes(st, a, cnt) ==
    ReaderReadRunesGot(BufferPeekRunes(st, st.readers[a], cnt), st, a)

\* Reader.Reset()
ReaderReset(st, a) == [st EXCEPT !.readers[a] = 0]

---------------------------------------------------------------------------
(* parser.Input. *)

\* New(r): the root Input over a fresh Buffer
NewInput == [inputs |-> <<[parent |-> 0, r |-> 1]>>, readers |-> <<0>>, start |-> 0]

\* Input.Read(bs)
InputRead(st, p, len) == ReaderRead(st, st.inputs[p].r, len)

\* Input.ReadRunes(rs)
InputReadRunes(st, p, cnt) == ReaderReadRunes(st, st.inputs[p].r, cnt)

\* a MayFail whose child shares the parent's Reader instead of cloning it
InputMayFailShared(st, p) ==
    [st |-> [st EXCEPT !.inputs = Append(st.inputs, [parent |-> p, r |-> st.inputs[p].r])],
     c |-> Len(st.inputs) + 1]

\* Input.MayFail(): [st, c] with c the child
InputMayFail(st, p) ==
    [st |-> [ReaderClone(st, st.inputs[p].r).st EXCEPT
                !.inputs = Append(st.inputs,
                                  [parent |-> p, r |-> ReaderClone(st, st.inputs[p].r).a])],
     c |-> Len(st.inputs) + 1]

\* the root Keep finds: p itself, p's parent, or 0 (nil)
KeepRoot(st, p) ==
    IF st.inputs[p].parent = 0 THEN p
    ELSE IF st.inputs[st.inputs[p].parent].parent = 0 THEN st.inputs[p].parent
    ELSE 0

\* a Keep that collects at every depth
InputKeepCollecting(st, p) ==
    IF st.inputs[p].parent = 0
    THEN [st |-> ReaderReset(BufferCollect(st, st.inputs[p].r), st.inputs[p].r),
          ret |-> p]
    ELSE [st |-> ReaderReset(BufferCollect(st, st.inputs[p].r),
                             st.inputs[st.inputs[p].parent].r),
          ret |-> st.inputs[p].parent]

\* a Keep that, below the root's children, leaves the parent where it was
InputKeepLazy(st, p) ==
    IF KeepRoot(st, p) # 0
    THEN [st |-> ReaderReset(BufferCollect(st, st.inputs[p].r),
                             st.inputs[KeepRoot(st, p)].r),
          ret |-> KeepRoot(st, p)]
    ELSE [st |-> st, ret |-> st.inputs[p].parent]

\* Input.Keep(): [st, ret] with ret the Input returned
InputKeep(st, p) ==
    IF KeepRoot(st, p) # 0
    THEN [st |-> ReaderReset(BufferCollect(st, st.inputs[p].r),
                             st.inputs[KeepRoot(st, p)].r),
          ret |-> KeepRoot(st, p)]
    ELSE [st |-> [st EXCEPT !.inputs[st.inputs[p].parent].r = st.inputs[p].r],
          ret |-> st.inputs[p].parent]

\* Input.Discard(): the Input returned; nothing changes
InputDiscard(st, p) == IF st.inputs[p].parent # 0 THEN st.inputs[p].parent ELSE p

\* the offset of Input p, and the number of source bytes before it
Offset(st, p) == st.readers[st.inputs[p].r]

Position(st, p) == Min(st.start + Offset(st, p), Len(stream))

---------------------------------------------------------------------------
(* Go's garbage collector: Inputs past the first k are the forks a matcher *)
(* made and dropped, and a Reader no kept Input points to is gone.  The    *)
(* Readers left are renamed in the order the Inputs name them.             *)

RECURSIVE ReaderOrder(_, _, _)
ReaderOrder(ins, i, acc) ==
    IF i > Len(ins) THEN acc
    ELSE ReaderOrder(ins, i + 1,
                     IF \E j \in 1..Len(acc) : acc[j] = ins[i].r
                     THEN acc ELSE Append(acc, ins[i].r))

\* the heap with the Readers renamed as order lists them
Renamed(st, ins, order) ==
    [inputs |-> [i \in 1..Len(ins) |->
                    [parent |-> ins[i].parent,
                     r |-> CHOOSE j \in 1..Len(order) : order[j] = ins[i].r]],
     readers |-> [j \in 1..Len(order) |-> st.readers[order[j]]],
     start |-> st.start]

Collected(st, k) == Renamed(st, Take(st.inputs, k), ReaderOrder(Take(st.inputs, k), 1, << >>))

---------------------------------------------------------------------------
(* token.Tag, parser.Match and the matchers.                               *)
(*                                                                         *)
(* A *Match is [nil, tag, content, sub]; nil marks the nil pointer.  What  *)
(* a Matcher returns is [kind, m, err]: kind "match" (m, nil), "nomatch"   *)
(* (nil, nil), "err" (nil, err) or "panic" (the call never returned).      *)

TagNone == 0
TagLiteral == 1
TagLast == 2

\* a NextTag that returns prevTag as it was before the increment
NextTagStale(prev) == [prevTag |-> prev + 1, ret |-> prev]

\* NextTag(): prevTag++; return prevTag
NextTag(prev) == [prevTag |-> prev + 1, ret |-> prev + 1]

NilMatch == [nil |-> TRUE, tag |-> TagNone, content |-> << >>, sub |-> << >>]

MakeMatch(t, content, sub) == [nil |-> FALSE, tag |-> t, content |-> content, sub |-> sub]

\* Match.Length()
MatchLength(m) == IF ~m.nil THEN Len(m.content) ELSE 0

Matched(st, m) == [st |-> st, res |-> [kind |-> "match", m |-> m, err |-> "nil"]]

NoMatch(st) == [st |-> st, res |-> [kind |-> "nomatch", m |-> NilMatch, err |-> "nil"]]

Failed(st, err) ==
    [st |-> st,
     res |-> [kind |-> IF err = "panic" THEN "panic" ELSE "err", m |-> NilMatch, err |-> err]]

\* the Matcher values: the constructors of match/bytes.go, match/runes.go,
\* the combinators, and the root package's MatchOneFunc
OneByte(t, pred) == [k |-> "Bytes", t |-> t, from |-> 0, to |-> 0, pred |-> pred]

NBytes(t, from, to, pred) == [k |-> "Bytes", t |-> t, from |-> from, to |-> to, pred |-> pred]

OneRune(t, pred) == [k |-> "Runes", t |-> t, from |-> 1, to |-> 1, pred |-> pred]

NRunes(t, from, to, pred) == [k |-> "Runes", t |-> t, from |-> from, to |-> to, pred |-> pred]

MatchOneFunc(t, pred) == [k |-> "MatchOneFunc", t |-> t, pred |-> pred]

Many(t, min, mtch) == [k |-> "Many", t |-> t, min |-> min, mtch |-> mtch]

First(mtchs) == [k |-> "First", mtchs |-> mtchs]

Longest(ms) == [k |-> "Longest", ms |-> ms]

TryAndKeep(mtch) == [k |-> "TryAndKeep", mtch |-> mtch]

Optional(mtch) == [k |-> "Optional", mtch |-> mtch]

\* Seq(t, mtchs...); Seq itself is the name of an operator of Sequences
MatchSeq(t, mtchs) == [k |-> "Seq", t |-> t, mtchs |-> mtchs]

\* SeqNamed(t, name1, m1, ..., namek, mk): names and ms are the arguments at
\* the even and at the odd places
SeqNamed(t, names, ms) == [k |-> "SeqNamed", t |-> t, names |-> names, ms |-> ms]

ManyWithSep(t, min, mtch, sep) ==
    [k |-> "ManyWithSep", t |-> t, min |-> min, mtch |-> mtch, sep |-> sep]

\* Bytes.matchOne, after _, err := p.Read(bs[:])
BytesMatchOneGot(r, b) ==
    IF r.err # "nil" THEN [st |-> r.st, c |-> 0, ok |-> FALSE, err |-> r.err]
    ELSE IF r.bytes[1] \in b.pred
    THEN [st |-> r.st, c |-> r.bytes[1], ok |-> TRUE, err |-> "nil"]
    ELSE [st |-> r.st, c |-> 0, ok |-> FALSE, err |-> "nil"]

\* Bytes.matchOne(p): [st, c, ok, err]
BytesMatchOne(b, st, p) == BytesMatchOneGot(InputRead(st, p, 1), b)

RECURSIVE BytesMatchUpTo(_, _, _, _, _)

\* Bytes.Match, the body of the second loop after c, ok, err := b.matchOne(p)
BytesMatchUpToGot(o, b, p, i, bs) ==
    IF o.err # "nil" THEN Failed(o.st, o.err)
    ELSE IF ~o.ok THEN Matched(o.st, MakeMatch(b.t, bs, << >>))
    ELSE BytesMatchUpTo(b, o.st, p, i + 1, Append(bs, o.c))

\* Bytes.Match, second loop: for i := b.from + 1; i <= b.to; i++
BytesMatchUpTo(b, st, p, i, bs) ==
    IF i > b.to THEN Matched(st, MakeMatch(b.t, bs, << >>))
    ELSE BytesMatchUpToGot(BytesMatchOne(b, st, p), b, p, i, bs)

RECURSIVE BytesMatchFrom(_, _, _, _, _)

\* Bytes.Match, the body of the first loop after c, ok, err := b.matchOne(p);
\* bs[i] = c is out of range once i reaches len(bs) = b.from
BytesMatchFromGot(o, b, p, i, bs) ==
    IF o.err # "nil" THEN Failed(o.st, o.err)
    ELSE IF ~o.ok THEN NoMatch(o.st)
    ELSE IF i >= Len(bs) THEN Failed(o.st, "panic")
    ELSE BytesMatchFrom(b, o.st, p, i + 1, [bs EXCEPT ![i + 1] = o.c])

\* Bytes.Match, first loop: for i := 0; i <= b.from; i++
BytesMatchFrom(b, st, p, i, bs) ==
    IF i > b.from THEN BytesMatchUpTo(b, st, p, b.from + 1, bs)
    ELSE BytesMatchFromGot(BytesMatchOne(b, st, p), b, p, i, bs)

\* Bytes.Match(p)
BytesMatch(b, st, p) == BytesMatchFrom(b, st, p, 0, [j \in 1..b.from |-> 0])

\* Runes.matchOne, after _, err := p.ReadRunes(rs[:])
RunesMatchOneGot(o, r) ==
    IF o.err # "nil" THEN [st |-> o.st, c |-> 0, ok |-> FALSE, err |-> o.err]
    ELSE IF o.rs[1] \in r.pred
    THEN [st |-> o.st, c |-> o.rs[1], ok |-> TRUE, err |-> "nil"]
    ELSE [st |-> o.st, c |-> 0, ok |-> FALSE, err |-> "nil"]

\* Runes.matchOne(p): [st, c, ok, err]
RunesMatchOne(r, st, p) == RunesMatchOneGot(InputReadRunes(st, p, 1), r)

RECURSIVE RunesMatchUpTo(_, _, _, _, _)

\* Runes.Match, the body of the second loop after c, ok, err := r.matchOne(p)
RunesMatchUpToGot(o, r, p, i, rs) ==
    IF o.err # "nil" THEN Failed(o.st, o.err)
    ELSE IF ~o.ok THEN Matched(o.st, MakeMatch(r.t, EncodeRunes(rs), << >>))
    ELSE RunesMatchUpTo(r, o.st, p, i + 1, Append(rs, o.c))

\* Runes.Match, second loop: for i := r.from; i < r.to; i++
RunesMatchUpTo(r, st, p, i, rs) ==
    IF i >= r.to THEN Matched(st, MakeMatch(r.t, EncodeRunes(rs), << >>))
    ELSE RunesMatchUpToGot(RunesMatchOne(r, st, p), r, p, i, rs)

RECURSIVE RunesMatchFrom(_, _, _, _, _)

\* Runes.Match, the body of the first loop after c, ok, err := r.matchOne(p)
RunesMatchFromGot(o, r, p, i, rs) ==
    IF o.err # "nil" THEN Failed(o.st, o.err)
    ELSE IF ~o.ok THEN NoMatch(o.st)
    ELSE RunesMatchFrom(r, o.st, p, i + 1, [rs EXCEPT ![i + 1] = o.c])

\* Runes.Match, first loop: for i := 0; i < r.from; i++
RunesMatchFrom(r, st, p, i, rs) ==
    IF i >= r.from THEN RunesMatchUpTo(r, st, p, r.from, rs)
    ELSE RunesMatchFromGot(RunesMatchOne(r, st, p), r, p, i, rs)

\* Runes.Match(p)
RunesMatch(r, st, p) == RunesMatchFrom(r, st, p, 0, [j \in 1..r.from |-> 0])

\* Parser.MatchOneFunc, after _, err := p.Read(cs[:]) on the fork c
ParserMatchOneFuncGot(r, f, c) ==
    IF r.err # "nil" THEN Failed(r.st, r.err)
    ELSE IF r.bytes[1] \in f.pred
    THEN Matched(InputKeep(r.st, c).st, MakeMatch(f.t, r.bytes, << >>))
    ELSE NoMatch(r.st)

\* Parser.MatchOneFunc, after p = p.MayFail()
ParserMatchOneFuncIn(c, f) == ParserMatchOneFuncGot(InputRead(c.st, c.c, 1), f, c.c)

\* Parser.MatchOneFunc(t, pred) of the root package: fork, read one byte,
\* Keep the fork when the byte passes
ParserMatchOneFunc(f, st, p) == ParserMatchOneFuncIn(InputMayFail(st, p), f)

\* selectLongest(ms), the loop from index n on, 1-based
RECURSIVE SelectLongestFrom(_, _, _, _)
SelectLongestFrom(ms, n, ln, lm) ==
    IF n > Len(ms) THEN ln
    ELSE IF lm.nil \/ MatchLength(ms[n]) > MatchLength(lm)
    THEN SelectLongestFrom(ms, n + 1, n, ms[n])
    ELSE SelectLongestFrom(ms, n + 1, ln, lm)

\* a selectLongest that lets a later match of the same length win
RECURSIVE SelectLatestFrom(_, _, _, _)
SelectLatestFrom(ms, n, ln, lm) ==
    IF n > Len(ms) THEN ln
    ELSE IF lm.nil \/ MatchLength(ms[n]) >= MatchLength(lm)
    THEN SelectLatestFrom(ms, n + 1, n, ms[n])
    ELSE SelectLatestFrom(ms, n + 1, ln, lm)

SelectLatest(ms) == SelectLatestFrom(ms, 1, IF Len(ms) = 0 THEN 0 ELSE 1, NilMatch)

\* selectLongest(ms), as a 1-based index into ms (0 is Go's index 0 into an
\* empty ms, where there is nothing)
SelectLongest(ms) == SelectLongestFrom(ms, 1, IF Len(ms) = 0 THEN 0 ELSE 1, NilMatch)

RECURSIVE Eval(_, _, _)
RECURSIVE LongestTry(_, _, _, _, _, _)
RECURSIVE ManyLoop(_, _, _, _, _)
RECURSIVE FirstTry(_, _, _, _)

\* Longest, after the loop: w := selectLongest(msm); msp[w].Keep()
LongestPick(w, st, msm, msp) ==
    IF w = 0 THEN Failed(st, "panic")
    ELSE IF msm[w].nil THEN NoMatch(InputKeep(st, msp[w]).st)
    ELSE Matched(InputKeep(st, msp[w]).st, msm[w])

\* Longest, the body of the loop after m, err := mp.Match(p) on the fork c
LongestGot(e, l, p, i, msm, msp, c) ==
    IF e.res.kind \in {"err", "panic"} THEN e
    ELSE LongestTry(l, e.st, p, i + 1, Append(msm, e.res.m), Append(msp, c))

\* Longest, the body of the loop after p := p.MayFail()
LongestIn(c, l, p, i, msm, msp) ==
    LongestGot(Eval(l.ms[i], c.st, c.c), l, p, i, msm, msp, c.c)

\* Longest, the loop over ms from alternative i on; msm and msp are the
\* results and the forks so far
LongestTry(l, st, p, i, msm, msp) ==
    IF i > Len(l.ms) THEN LongestPick(SelectLongest(msm), st, msm, msp)
    ELSE LongestIn(InputMayFail(st, p), l, p, i, msm, msp)

\* Many, the body of the loop after m, err := mtch.Match(p)
ManyGot(e, y, p, ms, content) ==
    IF e.res.kind \in {"err", "panic"} THEN e
    ELSE IF e.res.kind = "match"
    THEN ManyLoop(y, e.st, p, Append(ms, e.res.m), content \o e.res.m.content)
    ELSE IF Len(ms) < y.min THEN NoMatch(e.st)
    ELSE Matched(e.st, MakeMatch(y.t, content, ms))

\* Many, the loop on p; ms are the elements matched so far
ManyLoop(y, st, p, ms, content) == ManyGot(Eval(y.mtch, st, p), y, p, ms, content)

\* a First that takes a fault of an alternative for a failure to match
FirstGotSkippingFaults(e, f, p, i) ==
    IF e.res.kind = "panic" THEN e
    ELSE IF e.res.kind = "match" THEN e
    ELSE FirstTry(f, e.st, p, i + 1)

\* First, the body of the loop after m, err := mtch.Match(p) on the fork
FirstGot(e, f, p, i) ==
    IF e.res.kind \in {"err", "panic"} THEN e
    ELSE IF e.res.kind = "match" THEN e
    ELSE FirstTry(f, e.st, p, i + 1)

\* First, the body of the loop after p := p.MayFail()
FirstIn(c, f, p, i) == FirstGot(Eval(f.mtchs[i], c.st, c.c), f, p, i)

\* First, the loop over mtchs from alternative i on
FirstTry(f, st, p, i) ==
    IF i > Len(f.mtchs) THEN NoMatch(st)
    ELSE FirstIn(InputMayFail(st, p), f, p, i)

\* a TryAndKeep that returns the Match and leaves the fork uncommitted
TryAndKeepGotUnkept(e, c) == e

\* TryAndKeep, after m, err := mtch.Match(p) on the fork c
TryAndKeepGot(e, c) ==
    IF e.res.kind \in {"err", "panic"} THEN e
    ELSE IF e.res.kind = "nomatch" THEN e
    ELSE Matched(InputKeep(e.st, c).st, e.res.m)

\* TryAndKeep, after p = p.MayFail()
TryAndKeepIn(c, t) == TryAndKeepGot(Eval(t.mtch, c.st, c.c), c.c)

\* TryAndKeep(mtch).Match(p)
TryAndKeepMatch(t, st, p) == TryAndKeepIn(InputMayFail(st, p), t)

\* Optional, after m, err := TryAndKeep(mtch).Match(p)
OptionalGot(e) ==
    IF e.res.kind \in {"err", "panic"} THEN e
    ELSE IF e.res.kind = "match" THEN e
    ELSE Matched(e.st, MakeMatch(TagNone, << >>, << >>))

\* an Optional that runs mtch on the cursor itself
OptionalMatchUnforked(o, st, p) == OptionalGot(Eval(o.mtch, st, p))

\* Optional(mtch).Match(p)
OptionalMatch(o, st, p) == OptionalGot(TryAndKeepMatch(TryAndKeep(o.mtch), st, p))

RECURSIVE SeqLoop(_, _, _, _, _)

\* Seq, the body of the loop after m, err := mtch.Match(p)
SeqGot(e, s, p, i, ms) ==
    IF e.res.kind \in {"err", "panic"} THEN e
    ELSE IF e.res.kind = "nomatch" THEN NoMatch(e.st)
    ELSE SeqLoop(s, e.st, p, i + 1, Append(ms, e.res.m))

\* Seq, the loop over mtchs from step i on; the Match returned has Tag and
\* Submatch and no Content
SeqLoop(s, st, p, i, ms) ==
    IF i > Len(s.mtchs) THEN Matched(st, MakeMatch(s.t, << >>, ms))
    ELSE SeqGot(Eval(s.mtchs[i], st, p), s, p, i, ms)

\* the contents of ms, one after another
RECURSIVE ContentOf(_)
ContentOf(ms) == IF ms = << >> THEN << >> ELSE Head(ms).content \o ContentOf(Tail(ms))

\* BuildMatch, the map g after the pairs from i on: g[n] = x for each
\* name n that is not ""; a name given twice keeps the later Match
RECURSIVE BuildGroup(_, _, _, _)
BuildGroup(names, ms, i, g) ==
    IF i > Len(ms) THEN g
    ELSE BuildGroup(names, ms, i + 1,
                    IF names[i] = "" THEN g
                    ELSE [n \in DOMAIN g \cup {names[i]} |->
                             IF n = names[i] THEN ms[i] ELSE g[n]])

\* a BuildMatch that also puts the Matches named "" in the map
BuildMatchNamingAll(t, names, ms) ==
    [nil |-> FALSE, tag |-> t, content |-> ContentOf(ms), sub |-> ms,
     group |-> [n \in {names[i] : i \in 1..Len(ms)} |->
                   ms[CHOOSE i \in 1..Len(ms) :
                         names[i] = n /\ \A j \in (i + 1)..Len(ms) : names[j] # n]]]

\* BuildMatch(t, name1, m1, ...) for Matches that are not nil
BuildMatch(t, names, ms) ==
    [nil |-> FALSE, tag |-> t, content |-> ContentOf(ms), sub |-> ms,
     group |-> BuildGroup(names, ms, 1, << >>)]

RECURSIVE SeqNamedLoop(_, _, _, _, _)

\* SeqNamed, the body of the loop after m, err := mtch.(parser.Matcher).Match(p)
SeqNamedGot(e, s, p, i, ms) ==
    IF e.res.kind \in {"err", "panic"} THEN e
    ELSE IF e.res.kind = "nomatch" THEN NoMatch(e.st)
    ELSE SeqNamedLoop(s, e.st, p, i + 1, Append(ms, e.res.m))

\* SeqNamed, the loop over the matchers from step i on
SeqNamedLoop(s, st, p, i, ms) ==
    IF i > Len(s.ms) THEN Matched(st, BuildMatch(s.t, s.names, ms))
    ELSE SeqNamedGot(Eval(s.ms[i], st, p), s, p, i, ms)

RECURSIVE ManyWithSepLoop(_, _, _, _, _)

\* a ManyWithSep whose Submatch holds the separators too
ManyWithSepEndWithSeps(w, st, mbs, ms) ==
    IF Len(mbs) < w.min THEN NoMatch(st)
    ELSE Matched(st, MakeMatch(w.t, ContentOf(ms), ms))

\* ManyWithSep, after the loop; mbs are the elements, ms the elements and
\* the separators between them
ManyWithSepEnd(w, st, mbs, ms) ==
    IF Len(mbs) < w.min THEN NoMatch(st)
    ELSE Matched(st, MakeMatch(w.t, ContentOf(ms), mbs))

\* ManyWithSep, the body of the loop after m, err := mtch.Match(p); sepm
\* is pms[0]
ManyWithSepElemGot(e, w, p, mbs, ms, sepm) ==
    IF e.res.kind \in {"err", "panic"} THEN e
    ELSE IF e.res.kind = "match"
    THEN ManyWithSepLoop(w, e.st, p, Append(mbs, e.res.m),
                         IF Len(ms) > 0 THEN ms \o <<sepm, e.res.m>>
                         ELSE Append(ms, e.res.m))
    ELSE ManyWithSepEnd(w, e.st, mbs, ms)

\* ManyWithSep, the body of the loop from m, err := mtch.Match(p) on
ManyWithSepElem(w, st, p, mbs, ms, sepm) ==
    ManyWithSepElemGot(Eval(w.mtch, st, p), w, p, mbs, ms, sepm)

\* ManyWithSep, the body of the loop after m, err := sep.Match(p)
ManyWithSepSepGot(e, w, p, mbs, ms) ==
    IF e.res.kind \in {"err", "panic"} THEN e
    ELSE IF e.res.kind = "match" THEN ManyWithSepElem(w, e.st, p, mbs, ms, e.res.m)
    ELSE ManyWithSepEnd(w, e.st, mbs, ms)

\* ManyWithSep, the loop on p
ManyWithSepLoop(w, st, p, mbs, ms) ==
    IF Len(ms) > 0 THEN ManyWithSepSepGot(Eval(w.sep, st, p), w, p, mbs, ms)
    ELSE ManyWithSepElem(w, st, p, mbs, ms, NilMatch)

\* m.Match(p): [st, res]
Eval(m, st, p) ==
    CASE m.k = "Bytes" -> BytesMatch(m, st, p)
      [] m.k = "Runes" -> RunesMatch(m, st, p)
      [] m.k = "MatchOneFunc" -> ParserMatchOneFunc(m, st, p)
      [] m.k = "Longest" -> LongestTry(m, st, p, 1, << >>, << >>)
      [] m.k = "Many" -> ManyLoop(m, st, p, << >>, << >>)
      [] m.k = "First" -> FirstTry(m, st, p, 1)
      [] m.k = "TryAndKeep" -> TryAndKeepMatch(m, st, p)
      [] m.k = "Optional" -> OptionalMatch(m, st, p)
      [] m.k = "Seq" -> SeqLoop(m, st, p, 1, << >>)
      [] m.k = "SeqNamed" -> SeqNamedLoop(m, st, p, 1, << >>)
      [] m.k = "ManyWithSep" -> ManyWithSepLoop(m, st, p, << >>, << >>)

---------------------------------------------------------------------------
(* The program: calls made, one at a time, on the Inputs of one parse.     *)

Streams == SeqsUpTo(MaxStream)

Cur == [inputs |-> inputs, readers |-> readers, start |-> start]

NoMatcher == [k |-> "none"]

NoTrip == [phase |-> "none"]

\* the calls are made one at a time, by one goroutine: nobody holds the lock
\* between them
NoThreads == [lock |-> 0, run |-> << >>]

\* the Input was made by New: one bufio.Reader, which (stream, start) is
NoFeed == [made |-> "New"]

\* no Many or ManyWithSep is in progress
NoLoop == [pc |-> "none"]

Init ==
    /\ stream \in Streams
    /\ start = NewInput.start
    /\ size = DefaultBufSize
    /\ inputs = NewInput.inputs
    /\ readers = NewInput.readers
    /\ panicked = FALSE
    /\ prevTag = TagLast
    /\ issued = << >>
    /\ done = {}
    /\ clean = TRUE
    /\ steps = 0
    /\ gos = NoThreads
    /\ feed = NoFeed
    /\ loop = NoLoop
    /\ trip = NoTrip
    /\ last = [op |-> "new", p |-> 1, arg |-> 0, m |-> NoMatcher, pre |-> NewInput,
               res |-> [kind |-> "none", err |-> "nil"],
               kept |-> -1]

\* one call op(p, arg), made before the parse's top matcher has returned, that leaves the heap out, of which the first k
\* Inputs are still referenced, and returns res
Call(op, p, arg, m, out, k, res) ==
    /\ steps < MaxSteps
    /\ last.op # "Match"
    /\ ~panicked
    /\ \E after \in {Collected(out, k)} :
           /\ start' = after.start
           /\ inputs' = after.inputs
           /\ readers' = after.readers
    /\ stream' = stream
    /\ size' = size
    /\ gos' = gos
    /\ feed' = feed
    /\ loop' = loop
    /\ prevTag' = prevTag
    /\ issued' = issued
    /\ panicked' = (res.err = "panic")
    /\ steps' = steps + 1
    /\ clean' = (clean /\ p \notin done)
    /\ done' = IF op \in {"Keep", "Discard"} /\ inputs[p].parent # 0
               THEN done \cup {p} ELSE done
    /\ last' = [op |-> op, p |-> p, arg |-> arg, m |-> m, pre |-> Cur, res |-> res,
                kept |-> IF last.op = "Keep" /\ last.res.ret = p /\ last.p # p
                         THEN Position(last.pre, last.p) ELSE -1]

\* c := p.MayFail()
MayFail(p) ==
    /\ Len(inputs) < MaxInputs
    /\ Call("MayFail", p, 0, NoMatcher, InputMayFail(Cur, p).st, Len(inputs) + 1,
            [kind |-> "input", ret |-> Len(inputs) + 1, err |-> "nil"])
    /\ trip' = [phase |-> "forked", c |-> Len(inputs) + 1, p |-> p,
                off |-> Offset(Cur, p), got |-> << >>]

\* p.Read(bs) with len(bs) = len
Read(p, len) ==
    \E r \in {InputRead(Cur, p, len)} :
        /\ Call("Read", p, len, NoMatcher, r.st, Len(inputs),
                [kind |-> "read", n |-> r.n, bytes |-> r.bytes, err |-> r.err])
        /\ trip' = IF trip.phase = "forked" /\ trip.c = p
                   THEN [trip EXCEPT !.got = Append(trip.got,
                            [len |-> len, n |-> r.n, bytes |-> r.bytes, err |-> r.err])]
                   ELSE NoTrip

\* p.ReadRunes(rs) with len(rs) = cnt
ReadRunes(p, cnt) ==
    \E r \in {InputReadRunes(Cur, p, cnt)} :
        /\ Call("ReadRunes", p, cnt, NoMatcher, r.st, Len(inputs),
                [kind |-> "runes", n |-> r.n, rs |-> r.rs, err |-> r.err])
        /\ trip' = NoTrip

\* p.Keep()
Keep(p) ==
    /\ Call("Keep", p, 0, NoMatcher, InputKeep(Cur, p).st, Len(inputs),
            [kind |-> "input", ret |-> InputKeep(Cur, p).ret, err |-> "nil"])
    /\ trip' = NoTrip

\* p.Discard()
Discard(p) ==
    /\ Call("Discard", p, 0, NoMatcher, Cur, Len(inputs),
            [kind |-> "input", ret |-> InputDiscard(Cur, p), err |-> "nil"])
    /\ trip' = IF trip.phase = "forked" /\ trip.c = p
               THEN [trip EXCEPT !.phase = "abandoned"]
               ELSE NoTrip

DoMayFail == \E p \in 1..Len(inputs) : MayFail(p)

DoRead == \E p \in 1..Len(inputs), len \in 1..MaxRead : Read(p, len)

DoReadRunes == \E p \in 1..Len(inputs), cnt \in 1..MaxRunes : ReadRunes(p, cnt)

DoKeep == \E p \in 1..Len(inputs) : Keep(p)

DoDiscard == \E p \in 1..Len(inputs) : Discard(p)

Next == DoMayFail \/ DoRead \/ DoReadRunes \/ DoKeep \/ DoDiscard

Spec == Init /\ [][Next]_vars

---------------------------------------------------------------------------
(* A parse: a cursor is prepared by forks, reads and commits, and then one *)
(* matcher of the grammar is run on one of the Inputs.                     *)

PredA == {97}
PredLead == {195}
PredE == {233}
PredBad == {RuneError}

\* leaf matchers, tagged 3, 4, ... as token.NextTag would number them
LitA == MatchOneFunc(3, PredA)
LitA2 == MatchOneFunc(4, PredA)
LitLead == MatchOneFunc(5, PredLead)
ManyA == Many(6, 0, LitA)
SomeA == Many(7, 1, LitA)

Grammar ==
    { LitA,
      OneByte(TagLiteral, PredA),
      NBytes(3, 1, 2, PredA),
      OneRune(TagLiteral, PredE),
      OneRune(3, PredBad),
      NRunes(4, 0, 1, PredA),
      ManyA,
      TryAndKeep(LitA),
      TryAndKeep(ManyA),
      TryAndKeep(OneRune(3, PredBad)),
      TryAndKeep(OneByte(TagLiteral, PredA)),
      TryAndKeep(First(<<LitLead, LitA>>)),
      TryAndKeep(TryAndKeep(SomeA)),
      First(<<LitA, LitA2>>),
      First(<<LitLead, LitA2>>),
      First(<<LitLead, OneByte(TagLiteral, PredA)>>),
      Longest(<<LitA, ManyA>>),
      Longest(<<ManyA, LitA>>),
      Longest(<<LitA, LitA2>>),
      Longest(<<LitLead, LitA, SomeA>>),
      Longest(<<SomeA, LitLead, TryAndKeep(SomeA)>>),
      Longest(<<LitLead, OneByte(TagLiteral, PredA)>>),
      Optional(LitA) }

\* m.Match(p)
Match(p, m) ==
    \E e \in {Eval(m, Cur, p)} :
        /\ Call("Match", p, 0, m, e.st, Len(inputs), e.res)
        /\ trip' = NoTrip

DoMatch == \E p \in 1..Len(inputs), m \in Grammar : Match(p, m)

\* the calls that prepare the cursor
PrepMayFail == steps < MaxPrep /\ DoMayFail

PrepRead == steps < MaxPrep /\ DoRead

PrepKeep == steps < MaxPrep /\ DoKeep

NextMatch == PrepMayFail \/ PrepRead \/ PrepKeep \/ DoMatch

SpecMatch == Init /\ [][NextMatch]_vars

---------------------------------------------------------------------------
(* A parse of text: the sources are strings of the digit '5' and of '-',   *)
(* and the two phone numbers of the package example; the matchers are the  *)
(* sequence, repetition and option combinators over one-byte leaves.       *)

MaxText == 4

Five == 53
Hyphen == 45

TextAlphabet == {Five, Hyphen}

RECURSIVE TextsUpTo(_)
TextsUpTo(k) ==
    IF k = 0 THEN {<< >>}
    ELSE TextsUpTo(k - 1) \cup
         {Append(s, b) : s \in {t \in TextsUpTo(k - 1) : Len(t) = k - 1}, b \in TextAlphabet}

\* "555-555-5555" and "55-555-5555"
Contact == <<53, 53, 53, 45, 53, 53, 53, 45, 53, 53, 53, 53>>
ShortContact == <<53, 53, 45, 53, 53, 53, 45, 53, 53, 53, 53>>

Texts == TextsUpTo(MaxText) \cup {Contact, ShortContact}

\* BytesInRange('0', '9') and BytesInSet('-')
Digits == 48..57
Hyphens == {Hyphen}

LitDigit == MatchOneFunc(3, Digits)
LitHyphen == MatchOneFunc(4, Hyphens)

\* the phone number of the package example, its tags numbered as NextTag
\* numbers them
TAreaCode == 5
TLocalCode == 6
TPersonalCode == 7
TPhoneNumber == 8

MatchHyphen == OneByte(TagLiteral, Hyphens)

MatchPhoneNumber ==
    MatchSeq(TPhoneNumber,
             <<NBytes(TAreaCode, 3, 3, Digits),
               Optional(MatchHyphen),
               NBytes(TLocalCode, 3, 3, Digits),
               Optional(MatchHyphen),
               NBytes(TPersonalCode, 4, 4, Digits)>>)

TextGrammar ==
    { MatchPhoneNumber,
      Many(9, 2, LitDigit),
      Many(9, 1, LitHyphen),
      Optional(LitHyphen),
      Optional(MatchHyphen),
      Optional(MatchSeq(10, <<LitDigit, LitHyphen>>)),
      MatchSeq(10, <<LitDigit, LitHyphen>>),
      MatchSeq(10, <<LitDigit, Optional(LitHyphen), LitDigit>>),
      MatchSeq(10, <<Many(9, 1, LitDigit), LitHyphen>>),
      ManyWithSep(11, 1, LitDigit, LitHyphen),
      ManyWithSep(11, 2, LitDigit, LitHyphen),
      SeqNamed(12, <<"area", "", "local">>, <<LitDigit, LitHyphen, LitDigit>>),
      SeqNamed(12, <<"", "sep">>, <<LitDigit, LitHyphen>>),
      SeqNamed(12, <<"x", "x">>, <<LitDigit, LitHyphen>>),
      First(<<LitHyphen, LitDigit>>),
      Longest(<<LitDigit, Many(9, 1, LitDigit)>>),
      TryAndKeep(MatchSeq(10, <<LitDigit, LitHyphen>>)) }

InitText ==
    /\ stream \in Texts
    /\ start = NewInput.start
    /\ size = DefaultBufSize
    /\ inputs = NewInput.inputs
    /\ readers = NewInput.readers
    /\ panicked = FALSE
    /\ prevTag = TagLast
    /\ issued = << >>
    /\ done = {}
    /\ clean = TRUE
    /\ steps = 0
    /\ gos = NoThreads
    /\ feed = NoFeed
    /\ loop = NoLoop
    /\ trip = NoTrip
    /\ last = [op |-> "new", p |-> 1, arg |-> 0, m |-> NoMatcher, pre |-> NewInput,
               res |-> [kind |-> "none", err |-> "nil"],
               kept |-> -1]

DoMatchText == \E p \in 1..Len(inputs), m \in TextGrammar : Match(p, m)

NextText == PrepMayFail \/ PrepRead \/ PrepKeep \/ DoMatchText

SpecText == InitText /\ [][NextText]_vars

---------------------------------------------------------------------------
(* Look-ahead in a Buffer made by NewBufferSize: forks and long Reads on a *)
(* source longer than the smallest buffer.  The Reader of the root reads   *)
(* the first Buffer NewSize makes; no Keep is made here, so the second     *)
(* Buffer, which only Keep's Collect uses, stays out of it.                *)

MaxLong == 26

\* the first n letters of "abc...z"
Letters(n) == [i \in 1..n |-> 96 + i]

LongStreams == {Letters(n) : n \in {MinReadBufferSize + 1, MaxLong}}

\* the sizes asked of NewBufferSize
Sizes == {0, MinReadBufferSize, MinReadBufferSize + 8}

\* the lengths of the slices read
LongReads == {1, 8}

InitSize ==
    /\ stream \in LongStreams
    /\ start = NewInput.start
    /\ size \in {NewBufferSize(sz) : sz \in Sizes}
    /\ inputs = NewInput.inputs
    /\ readers = NewInput.readers
    /\ panicked = FALSE
    /\ prevTag = TagLast
    /\ issued = << >>
    /\ done = {}
    /\ clean = TRUE
    /\ steps = 0
    /\ gos = NoThreads
    /\ feed = NoFeed
    /\ loop = NoLoop
    /\ trip = NoTrip
    /\ last = [op |-> "new", p |-> 1, arg |-> 0, m |-> NoMatcher, pre |-> NewInput,
               res |-> [kind |-> "none", err |-> "nil"],
               kept |-> -1]

DoReadLong == \E p \in 1..Len(inputs), len \in LongReads : Read(p, len)

NextSize == DoMayFail \/ DoReadLong \/ DoDiscard

SpecSize == InitSize /\ [][NextSize]_vars

---------------------------------------------------------------------------
(* Two goroutines, each driving its own fork of the root: the statements   *)
(* of Reader.Read, Reader.ReadRunes and Input.Keep, one at a time.         *)
(* gos.lock is the goroutine holding Buffer.lock (0: nobody) and           *)
(* gos.run[g] the call goroutine g is in: pc is the statement it is at,    *)
(* len the length of its slice, n and err what peek returned to it.        *)

MaxThreads == 2

Threads == 1..MaxThreads

\* the fork goroutine g drives
CursorOf(g) == g + 1

Idle == [pc |-> "idle", op |-> "none", len |-> 0, n |-> 0, err |-> "nil"]

\* the heap after root.MayFail(), once for each goroutine
RECURSIVE Forked(_, _)
Forked(st, k) == IF k = 0 THEN st ELSE Forked(InputMayFail(st, 1).st, k - 1)

InitLock ==
    /\ stream \in Streams
    /\ start = Forked(NewInput, MaxThreads).start
    /\ size = DefaultBufSize
    /\ inputs = Forked(NewInput, MaxThreads).inputs
    /\ readers = Forked(NewInput, MaxThreads).readers
    /\ panicked = FALSE
    /\ prevTag = TagLast
    /\ issued = << >>
    /\ done = {}
    /\ clean = TRUE
    /\ steps = 0
    /\ gos = [lock |-> 0, run |-> [g \in Threads |-> Idle]]
    /\ feed = NoFeed
    /\ loop = NoLoop
    /\ trip = NoTrip
    /\ last = [op |-> "new", p |-> 1, arg |-> 0, m |-> NoMatcher,
               pre |-> Forked(NewInput, MaxThreads),
               res |-> [kind |-> "none", err |-> "nil"],
               kept |-> -1]

\* goroutine g executes the statement op, which leaves the heap st, g at
\* run and the lock with holder
Step(g, op, st, run, holder, panics) ==
    /\ ~panicked
    /\ start' = st.start
    /\ inputs' = st.inputs
    /\ readers' = st.readers
    /\ gos' = [lock |-> holder, run |-> [gos.run EXCEPT ![g] = run]]
    /\ panicked' = panics
    /\ steps' = IF gos.run[g].pc = "idle" THEN steps + 1 ELSE steps
    /\ last' = [op |-> op, p |-> CursorOf(g), arg |-> g, m |-> NoMatcher, pre |-> Cur,
                res |-> [kind |-> "step", err |-> run.err],
                kept |-> -1]
    /\ UNCHANGED <<stream, size, done, clean, trip, prevTag, issued, feed, loop>>

\* r.buf.lock.Lock(), the first statement of Read (op "Read") and of
\* ReadRunes (op "ReadRunes"), on a slice of length len
ReaderLock(g, op, len) ==
    /\ steps < MaxSteps
    /\ gos.run[g].pc = "idle"
    /\ gos.lock = 0
    /\ Step(g, "Lock", Cur, [Idle EXCEPT !.pc = "peek", !.op = op, !.len = len], g, FALSE)

\* n, err = r.buf.peek(r.n, p), or peekRunes; a panic runs the deferred
\* Unlock and ends the program
ReaderPeek(g) ==
    /\ gos.run[g].pc = "peek"
    /\ \E r \in {IF gos.run[g].op = "Read"
                 THEN BufferPeek(Cur, Offset(Cur, CursorOf(g)), gos.run[g].len)
                 ELSE BufferPeekRunes(Cur, Offset(Cur, CursorOf(g)), gos.run[g].len)} :
           IF r.err = "panic"
           THEN Step(g, "peek", Cur, [Idle EXCEPT !.err = r.err], 0, TRUE)
           ELSE Step(g, "peek", Cur,
                     [gos.run[g] EXCEPT !.pc = "add", !.n = r.n, !.err = r.err],
                     gos.lock, FALSE)

\* r.n += n
ReaderAdd(g) ==
    /\ gos.run[g].pc = "add"
    /\ Step(g, "add",
            [Cur EXCEPT !.readers[inputs[CursorOf(g)].r] = @ + gos.run[g].n],
            [gos.run[g] EXCEPT !.pc = "unlock"], gos.lock, FALSE)

\* the deferred r.buf.lock.Unlock(), and the return
ReaderUnlock(g) ==
    /\ gos.run[g].pc = "unlock"
    /\ Step(g, "Unlock", Cur, Idle, 0, FALSE)

\* Keep on a child of the root: root.buf.Collect(p.r), which is
\* b.discard(r.n)
KeepCollect(g) ==
    /\ steps < MaxSteps
    /\ gos.run[g].pc = "idle"
    /\ Step(g, "discard", BufferCollect(Cur, inputs[CursorOf(g)].r),
            [Idle EXCEPT !.pc = "reset", !.op = "Keep"], gos.lock, FALSE)

\* Keep on a child of the root: root.r.Reset(), and the return
KeepReset(g) ==
    /\ gos.run[g].pc = "reset"
    /\ Step(g, "Reset", ReaderReset(Cur, inputs[KeepRoot(Cur, CursorOf(g))].r),
            Idle, gos.lock, FALSE)

DoLock == \E g \in Threads, len \in 1..MaxRead : ReaderLock(g, "Read", len)

DoLockRunes == \E g \in Threads, cnt \in 1..MaxRunes : ReaderLock(g, "ReadRunes", cnt)

DoPeek == \E g \in Threads : ReaderPeek(g)

DoAdd == \E g \in Threads : ReaderAdd(g)

DoUnlock == \E g \in Threads : ReaderUnlock(g)

DoCollect == \E g \in Threads : KeepCollect(g)

DoReset == \E g \in Threads : KeepReset(g)

NextLock == DoLock \/ DoLockRunes \/ DoPeek \/ DoAdd \/ DoUnlock \/ DoCollect \/ DoReset

SpecLock == InitLock /\ [][NextLock]_vars

---------------------------------------------------------------------------
(* The tags of a program: NextTag called again and again, as the init of   *)
(* the packages that hold grammars calls it.                               *)

MaxTags == 120

InitTag ==
    /\ stream = << >>
    /\ start = NewInput.start
    /\ size = DefaultBufSize
    /\ inputs = NewInput.inputs
    /\ readers = NewInput.readers
    /\ panicked = FALSE
    /\ prevTag = TagLast
    /\ issued = << >>
    /\ done = {}
    /\ clean = TRUE
    /\ steps = 0
    /\ gos = NoThreads
    /\ feed = NoFeed
    /\ loop = NoLoop
    /\ trip = NoTrip
    /\ last = [op |-> "new", p |-> 1, arg |-> 0, m |-> NoMatcher, pre |-> NewInput,
               res |-> [kind |-> "none", err |-> "nil"],
               kept |-> -1]

\* t := token.NextTag()
DoNextTag ==
    /\ Len(issued) < MaxTags
    /\ prevTag' = NextTag(prevTag).prevTag
    /\ issued' = Append(issued, NextTag(prevTag).ret)
    /\ UNCHANGED <<stream, start, size, inputs, readers, panicked, done, clean, steps,
                   gos, trip, feed, loop, last>>

NextTags == DoNextTag

SpecTag == InitTag /\ [][NextTags]_vars

---------------------------------------------------------------------------
(* The predicates of match/bytes.go and match/runes.go.  A BytePredicate   *)
(* or RunePredicate is the set of the units it returns true for; the       *)
(* operators below are the predicates the combinators return, applied to   *)
(* a unit.                                                                 *)

\* the bytes and the code points the predicates are tried on
ByteUnits == {0, 97, 255}
RuneUnits == {97, 233, RuneError}

\* the loop of AnyBytes' default case, from preds[i] on
RECURSIVE AnyBytesFrom(_, _, _)
AnyBytesFrom(preds, b, i) ==
    IF i > Len(preds) THEN FALSE
    ELSE IF b \in preds[i] THEN TRUE
    ELSE AnyBytesFrom(preds, b, i + 1)

\* AnyBytes(preds...)(b)
AnyBytes(preds, b) ==
    CASE Len(preds) = 0 -> FALSE
      [] Len(preds) = 1 -> b \in preds[1]
      [] OTHER -> AnyBytesFrom(preds, b, 1)

\* the loop of NotBytes, from preds[i] on
RECURSIVE NotBytesFrom(_, _, _)
NotBytesFrom(preds, b, i) ==
    IF i > Len(preds) THEN TRUE
    ELSE IF b \in preds[i] THEN FALSE
    ELSE NotBytesFrom(preds, b, i + 1)

\* NotBytes(preds...)(b)
NotBytes(preds, b) == NotBytesFrom(preds, b, 1)

\* a ThisButNotThatBytes that does not ask that
ThisBytes(this, that, b) == b \in this

\* ThisButNotThatBytes(this, that)(b)
ThisButNotThatBytes(this, that, b) ==
    IF b \in this
    THEN IF b \in that THEN FALSE ELSE TRUE
    ELSE FALSE

\* the loop of AnyRunes' default case, from preds[i] on
RECURSIVE AnyRunesFrom(_, _, _)
AnyRunesFrom(preds, r, i) ==
    IF i > Len(preds) THEN FALSE
    ELSE IF r \in preds[i] THEN TRUE
    ELSE AnyRunesFrom(preds, r, i + 1)

\* AnyRunes(preds...)(r)
AnyRunes(preds, r) ==
    CASE Len(preds) = 0 -> FALSE
      [] Len(preds) = 1 -> r \in preds[1]
      [] OTHER -> AnyRunesFrom(preds, r, 1)

\* the loop of NotRunes, from preds[i] on
RECURSIVE NotRunesFrom(_, _, _)
NotRunesFrom(preds, r, i) ==
    IF i > Len(preds) THEN TRUE
    ELSE IF r \in preds[i] THEN FALSE
    ELSE NotRunesFrom(preds, r, i + 1)

\* NotRunes(preds...)(r)
NotRunes(preds, r) == NotRunesFrom(preds, r, 1)

\* ThisButNotThatRunes(this, that)(r)
ThisButNotThatRunes(this, that, r) ==
    IF r \in this
    THEN IF r \in that THEN FALSE ELSE TRUE
    ELSE FALSE

\* the call record of the predicate op(preds...) applied to the unit u, ok
\* returned
Applied(op, preds, u, ok) ==
    [op |-> op, p |-> 1, arg |-> [preds |-> preds, u |-> u], m |-> NoMatcher,
     pre |-> Cur, res |-> [kind |-> "bool", ok |-> ok, err |-> "nil"],
     kept |-> -1]

\* what applying a predicate leaves alone
heap == <<stream, start, size, inputs, readers, panicked, done, clean, steps, gos,
          prevTag, issued, trip, feed, loop>>

DoAnyBytes ==
    \E p1 \in SUBSET ByteUnits, p2 \in SUBSET ByteUnits, b \in ByteUnits :
        /\ last' = Applied("AnyBytes", <<p1, p2>>, b, AnyBytes(<<p1, p2>>, b))
        /\ UNCHANGED heap

DoNotBytes ==
    \E p1 \in SUBSET ByteUnits, b \in ByteUnits :
        /\ last' = Applied("NotBytes", <<p1>>, b, NotBytes(<<p1>>, b))
        /\ UNCHANGED heap

DoThisButNotThatBytes ==
    \E p1 \in SUBSET ByteUnits, p2 \in SUBSET ByteUnits, b \in ByteUnits :
        /\ last' = Applied("ThisButNotThatBytes", <<p1, p2>>, b,
                           ThisButNotThatBytes(p1, p2, b))
        /\ UNCHANGED heap

DoAnyRunes ==
    \E p1 \in SUBSET RuneUnits, p2 \in SUBSET RuneUnits, r \in RuneUnits :
        /\ last' = Applied("AnyRunes", <<p1, p2>>, r, AnyRunes(<<p1, p2>>, r))
        /\ UNCHANGED heap

DoNotRunes ==
    \E p1 \in SUBSET RuneUnits, r \in RuneUnits :
        /\ last' = Applied("NotRunes", <<p1>>, r, NotRunes(<<p1>>, r))
        /\ UNCHANGED heap

DoThisButNotThatRunes ==
    \E p1 \in SUBSET RuneUnits, p2 \in SUBSET RuneUnits, r \in RuneUnits :
        /\ last' = Applied("ThisButNotThatRunes", <<p1, p2>>, r,
                           ThisButNotThatRunes(p1, p2, r))
        /\ UNCHANGED heap

NextPred ==
    \/ DoAnyBytes
    \/ DoNotBytes
    \/ DoThisButNotThatBytes
    \/ DoAnyRunes
    \/ DoNotRunes
    \/ DoThisButNotThatRunes

SpecPred == InitTag /\ [][NextPred]_vars

---------------------------------------------------------------------------
(* The loops of Many and ManyWithSep, one pass at a time.  loop.pc is the  *)
(* statement the loop is at: "elem" before mtch.Match(p), "sep" before     *)
(* sep.Match(p), "done" once the matcher has returned or panicked.  loop.n *)
(* is len(ms), counted up to MaxMin: the code only asks whether it is 0    *)
(* and whether it is less than min.  loop.was is the heap in which the     *)
(* loop last stood at the top of its body, before mtch.Match(p).           *)

MaxMin == 2

LoopGrammar ==
    { Many(9, 0, LitDigit),
      Many(9, MaxMin, LitHyphen),
      Many(9, 1, Optional(LitHyphen)),
      Many(9, 0, First(<<LitDigit>>)),
      Many(9, 0, TryAndKeep(LitDigit)),
      ManyWithSep(11, 1, LitDigit, LitHyphen),
      ManyWithSep(11, 0, Optional(LitDigit), LitHyphen),
      ManyWithSep(11, 1, LitDigit, Optional(LitHyphen)),
      ManyWithSep(11, 0, Optional(LitHyphen), Optional(LitHyphen)) }

\* what the loop returns when it ends on e, the last sub-match
LoopReturn(e) ==
    [kind |-> IF e.res.kind \in {"err", "panic"} THEN e.res.kind
              ELSE IF loop.n < loop.m.min THEN "nomatch" ELSE "match",
     err |-> e.res.err]

\* the loop has run the sub-matcher, which gave e, and goes on at pc with n
\* elements
LoopPass(e, pc, n) ==
    /\ \E after \in {Collected(e.st, Len(inputs))} :
           /\ start' = after.start
           /\ inputs' = after.inputs
           /\ readers' = after.readers
    /\ panicked' = (e.res.kind = "panic")
    /\ loop' = [loop EXCEPT !.pc = pc, !.n = n,
                            !.was = IF loop.pc = "elem" THEN Cur ELSE @]
    /\ last' = IF pc = "done"
               THEN [op |-> "Match", p |-> loop.p, arg |-> 0, m |-> loop.m, pre |-> Cur,
                     res |-> LoopReturn(e), kept |-> -1]
               ELSE last
    /\ UNCHANGED <<stream, size, done, clean, steps, gos, prevTag, issued, trip, feed>>

\* m.Match(p) is called, m a Many or a ManyWithSep: part_003:66-72 and 145-148
LoopEnter ==
    /\ loop.pc = "none"
    /\ \E m \in LoopGrammar : loop' = [pc |-> "elem", m |-> m, p |-> 1, n |-> 0, was |-> Cur]
    /\ UNCHANGED <<stream, start, size, inputs, readers, panicked, done, clean, steps,
                   gos, prevTag, issued, trip, feed, last>>

\* m, err := mtch.Match(p) and what the loop does with it: part_003:88-112
\* and 149-161
LoopElem ==
    /\ loop.pc = "elem"
    /\ \E e \in {Eval(loop.m.mtch, Cur, loop.p)} :
           IF e.res.kind = "match"
           THEN LoopPass(e, IF loop.m.k = "ManyWithSep" THEN "sep" ELSE "elem",
                         Min(loop.n + 1, MaxMin))
           ELSE LoopPass(e, "done", loop.n)

\* m, err := sep.Match(p) and what the loop does with it: part_003:74-86
LoopSep ==
    /\ loop.pc = "sep"
    /\ \E e \in {Eval(loop.m.sep, Cur, loop.p)} :
           IF e.res.kind = "match"
           THEN LoopPass(e, "elem", loop.n)
           ELSE LoopPass(e, "done", loop.n)

NextLoop == LoopEnter \/ LoopElem \/ LoopSep

SpecLoop == InitText /\ [][NextLoop]_vars

---------------------------------------------------------------------------
(* An Input made by NewSize.  NewSize makes two Buffers over the one       *)
(* io.Reader: the Reader of the root, and every clone of it, reads the     *)
(* first, and the field buf, which Keep collects in, is the second.  feed  *)
(* holds the two bufio.Readers: feed.one is what the first has taken from  *)
(* the source (it never discards), feed.src the bytes of the source taken  *)
(* by either, feed.two the bytes the second holds.  How many bytes one     *)
(* Read of the source delivers is the source's choice.  feed.kept counts   *)
(* the bytes committed by Keep so far.                                     *)

TwinStreams == {Letters(n) : n \in {2, 3, MinReadBufferSize + 1}}

\* NewSize(r, size)
NewSizeFeed == [made |-> "NewSize", one |-> << >>, src |-> 0, two |-> 0, kept |-> 0]

\* the first bufio.Reader after taking x more bytes, and what Peek(n) returns
OnePeekGot(fd, n, x) ==
    [fd |-> [fd EXCEPT !.one = @ \o SubSeq(stream, fd.src + 1, fd.src + x),
                       !.src = @ + x],
     bytes |-> Take(fd.one \o SubSeq(stream, fd.src + 1, fd.src + x), Min(n, size)),
     err |-> IF n > size THEN "ErrBufferFull"
             ELSE IF Len(fd.one) + x < n THEN "EOF" ELSE "nil"]

\* bufio.Reader.Peek(n) on the first Buffer: it fills until it holds n
\* bytes, is full, or the source has ended; the outcomes
OnePeek(fd, n) ==
    IF Len(fd.one) >= Min(n, size) THEN {OnePeekGot(fd, n, 0)}
    ELSE IF Len(stream) - fd.src <= Min(n, size) - Len(fd.one)
    THEN {OnePeekGot(fd, n, Len(stream) - fd.src)}
    ELSE {OnePeekGot(fd, n, x) :
            x \in (Min(n, size) - Len(fd.one))..Min(Len(stream) - fd.src, size - Len(fd.one))}

\* bufio.Reader.Discard(n) on the second Buffer: the outcomes
TwoDiscard(fd, n) ==
    IF n <= fd.two THEN {[fd EXCEPT !.two = @ - n]}
    ELSE IF Len(stream) - fd.src <= n - fd.two
    THEN {[fd EXCEPT !.two = 0, !.src = Len(stream)]}
    ELSE {[fd EXCEPT !.two = x - (n - fd.two), !.src = @ + x] :
            x \in (n - fd.two)..Min(Len(stream) - fd.src, n - fd.two - 1 + size)}

\* Reader.Read(p), len(p) = len > 0, on the first Buffer: the outcomes
TwinRead(st, fd, a, len) ==
    {[r |-> ReaderReadGot(BufferPeekGot(o, st.readers[a], len), st, a), fd |-> o.fd] :
        o \in OnePeek(fd, st.readers[a] + len)}

\* Input.Keep(): root.buf.Collect(p.r) is a Discard on the second Buffer
TwinKeep(st, fd, p) ==
    IF KeepRoot(st, p) # 0
    THEN {[st |-> ReaderReset(st, st.inputs[KeepRoot(st, p)].r),
           fd |-> [f EXCEPT !.kept = @ + Offset(st, p)]] : f \in TwoDiscard(fd, Offset(st, p))}
    ELSE {[st |-> InputKeep(st, p).st, fd |-> fd]}

InitTwin ==
    /\ stream \in TwinStreams
    /\ start = NewInput.start
    /\ size = NewBufferSize(0)
    /\ inputs = NewInput.inputs
    /\ readers = NewInput.readers
    /\ panicked = FALSE
    /\ prevTag = TagLast
    /\ issued = << >>
    /\ done = {}
    /\ clean = TRUE
    /\ steps = 0
    /\ gos = NoThreads
    /\ feed = NewSizeFeed
    /\ loop = NoLoop
    /\ trip = NoTrip
    /\ last = [op |-> "new", p |-> 1, arg |-> 0, m |-> NoMatcher, pre |-> NewInput,
               res |-> [kind |-> "none", err |-> "nil"],
               kept |-> -1]

\* one call op(p, arg) on an Input made by NewSize, which leaves the heap out
\* and the two bufio.Readers fd; last.kept is the number of bytes committed
\* when the call before was a Keep that returned p, the root
TwinCall(op, p, arg, out, fd, k, res) ==
    /\ steps < MaxSteps
    /\ \E after \in {Collected(out, k)} :
           /\ inputs' = after.inputs
           /\ readers' = after.readers
    /\ feed' = fd
    /\ steps' = steps + 1
    /\ clean' = (clean /\ p \notin done)
    /\ done' = IF op \in {"Keep", "Discard"} /\ inputs[p].parent # 0
               THEN done \cup {p} ELSE done
    /\ last' = [op |-> op, p |-> p, arg |-> arg, m |-> NoMatcher, pre |-> Cur, res |-> res,
                kept |-> IF last.op = "Keep" /\ last.res.ret = p /\ p = 1
                            /\ KeepRoot(last.pre, last.p) # 0
                         THEN feed.kept ELSE -1]
    /\ UNCHANGED <<stream, start, size, panicked, gos, prevTag, issued, trip, loop>>

\* c := p.MayFail()
DoTwinMayFail ==
    \E p \in 1..Len(inputs) :
        /\ Len(inputs) < MaxInputs
        /\ TwinCall("MayFail", p, 0, InputMayFail(Cur, p).st, feed, Len(inputs) + 1,
                    [kind |-> "input", ret |-> InputMayFail(Cur, p).c, err |-> "nil"])

\* p.Read(bs)
DoTwinRead ==
    \E p \in 1..Len(inputs), len \in 1..MaxRead :
        \E o \in TwinRead(Cur, feed, inputs[p].r, len) :
            TwinCall("Read", p, len, o.r.st, o.fd, Len(inputs),
                     [kind |-> "read", n |-> o.r.n, bytes |-> o.r.bytes, err |-> o.r.err])

\* p.Keep()
DoTwinKeep ==
    \E p \in 1..Len(inputs) :
        \E o \in TwinKeep(Cur, feed, p) :
            TwinCall("Keep", p, 0, o.st, o.fd, Len(inputs),
                     [kind |-> "input", ret |-> InputKeep(Cur, p).ret, err |-> "nil"])

\* p.Discard()
DoTwinDiscard ==
    \E p \in 1..Len(inputs) :
        TwinCall("Discard", p, 0, Cur, feed, Len(inputs),
                 [kind |-> "input", ret |-> InputDiscard(Cur, p), err |-> "nil"])

NextTwin == DoTwinMayFail \/ DoTwinRead \/ DoTwinKeep \/ DoTwinDiscard

SpecTwin == InitTwin /\ [][NextTwin]_vars

---------------------------------------------------------------------------
(* Input.Trace.  An argument is modelled by its kind: a func, an error, a  *)
(* *Match, or any other value.  The text built and the calls of TraceFunc  *)
(* made are the result.                                                    *)

MaxArgs == 3

\* var bs [10]byte
TraceLen == 10

Stages == {"StageTry", "StageGot", "StageFail"}

ArgKinds == {"value", "func", "error", "match"}

RECURSIVE ArgsUpTo(_)
ArgsUpTo(k) ==
    IF k = 0 THEN {<< >>}
    ELSE ArgsUpTo(k - 1) \cup {Append(a, x) : a \in ArgsUpTo(k - 1), x \in ArgKinds}

\* the switch on stage
TracePrefix(stage) ==
    CASE stage = "StageFail" -> <<"ERR ">>
      [] stage = "StageGot" -> <<"GOT ">>
      [] stage = "StageTry" -> <<"TRY ">>

\* the loop over args from args[i] on (i counts from 1), out being the text
\* so far: the text, and whether the loop ran to its end
RECURSIVE TraceArgs(_, _, _)
TraceArgs(args, i, out) ==
    IF i > Len(args) THEN [out |-> out, ended |-> TRUE]
    ELSE IF args[i] = "func"
    THEN TraceArgs(args, i + 1, out \o <<", ", "name">>)
    ELSE IF i = Len(args) /\ args[i] = "error"
    THEN [out |-> out \o <<", ", "): ", "error">>, ended |-> FALSE]
    ELSE IF i = Len(args) /\ args[i] = "match"
    THEN [out |-> out \o <<", ", ") = ", "match">>, ended |-> FALSE]
    ELSE TraceArgs(args, i + 1, out \o <<", ", args[i]>>)

\* Trace, after the loop over args
TraceGot(t) ==
    IF t.ended THEN [out |-> t.out \o <<")">>, calls |-> 1]
    ELSE [out |-> t.out, calls |-> 0]

\* p.Trace(stage, name, args...): the text built and the calls of
\* p.TraceFunc made; registered is p.TraceFunc != nil
InputTrace(st, p, registered, stage, args) ==
    IF ~registered THEN [out |-> << >>, calls |-> 0]
    ELSE TraceGot(TraceArgs(args, 1,
                            TracePrefix(stage) \o <<"name", "(">>
                            \o Take(BufferPeek(st, Offset(st, p), TraceLen).bytes,
                                    BufferPeek(st, Offset(st, p), TraceLen).n)
                            \o <<"...">>))

DoTrace ==
    \E registered \in BOOLEAN, stage \in Stages, args \in ArgsUpTo(MaxArgs) :
        /\ last' = [op |-> "Trace", p |-> 1,
                    arg |-> [registered |-> registered, stage |-> stage, args |-> args],
                    m |-> NoMatcher, pre |-> Cur,
                    res |-> [kind |-> "trace", err |-> "nil",
                             out |-> InputTrace(Cur, 1, registered, stage, args).out,
                             calls |-> InputTrace(Cur, 1, registered, stage, args).calls],
                    kept |-> -1]
        /\ UNCHANGED heap

NextTrace == DoTrace

\* the traced Input stands before nothing, or before more than TraceLen bytes
TraceStreams == {<< >>, Contact}

InitTrace ==
    /\ stream \in TraceStreams
    /\ start = NewInput.start
    /\ size = DefaultBufSize
    /\ inputs = NewInput.inputs
    /\ readers = NewInput.readers
    /\ panicked = FALSE
    /\ prevTag = TagLast
    /\ issued = << >>
    /\ done = {}
    /\ clean = TRUE
    /\ steps = 0
    /\ gos = NoThreads
    /\ feed = NoFeed
    /\ loop = NoLoop
    /\ trip = NoTrip
    /\ last = [op |-> "new", p |-> 1, arg |-> 0, m |-> NoMatcher, pre |-> NewInput,
               res |-> [kind |-> "none", err |-> "nil"],
               kept |-> -1]

SpecTrace == InitTrace /\ [][NextTrace]_vars

---------------------------------------------------------------------------
(* Properties.  last is the call made last, last.pre the heap it was made  *)
(* on and last.res what it returned; Cur is the heap it left.              *)

Root == 1

Parent(st, p) == st.inputs[p].parent

IsDeep(st, p) == Parent(st, p) # 0 /\ Parent(st, Parent(st, p)) # 0

\* m run on a fresh fork of p in the heap st, and the fork
ForkRun(m, st, p) == Eval(m, InputMayFail(st, p).st, InputMayFail(st, p).c)

ForkOf(st) == Len(st.inputs) + 1

\* where the fork of p stands once m has run on it
ForkEnd(m, st, p) == Position(ForkRun(m, st, p).st, ForkOf(st))

RECURSIVE ReadsAgain(_, _, _, _)
ReadsAgain(st, p, got, i) ==
    \/ i > Len(got)
    \/ /\ InputRead(st, p, got[i].len).n = got[i].n
       /\ InputRead(st, p, got[i].len).bytes = got[i].bytes
       /\ InputRead(st, p, got[i].len).err = got[i].err
       /\ ReadsAgain(InputRead(st, p, got[i].len).st, p, got, i + 1)

\* C2: after C = P.MayFail(), any Reads on C and C.Discard(), P's offset
\* is what it was before the fork and the same Reads made on P return the
\* same bytes in the same order.
ForkAbandonRoundTrip ==
    (trip.phase = "abandoned") =>
        /\ Offset(Cur, trip.p) = trip.off
        /\ ReadsAgain(Cur, trip.p, trip.got, 1)

\* a fork that read bytes and was abandoned
ForkReadAndAbandoned ==
    /\ trip.phase = "abandoned"
    /\ Len(trip.got) >= 2
    /\ \A i \in 1..Len(trip.got) : trip.got[i].n > 0

\* C3: Keep on the root or on a child of the root, the committing cursor at
\* offset n: the window start advances by n, the offsets of the committing
\* cursor and of the root are then 0, and Keep returns the root.
KeepAtRootResetsBoth ==
    (last.op = "Keep" /\ ~IsDeep(last.pre, last.p)) =>
        /\ start = last.pre.start + Offset(last.pre, last.p)
        /\ Offset(Cur, last.p) = 0
        /\ Offset(Cur, Root) = 0
        /\ last.res.ret = Root

\* C4: Keep on a cursor two or more levels below the root sets the parent's
\* offset to the child's, returns the parent, and leaves the window start
\* and every other cursor's offset as they were.
DeepKeepFrame ==
    (last.op = "Keep" /\ IsDeep(last.pre, last.p)) =>
        /\ Offset(Cur, Parent(last.pre, last.p)) = Offset(last.pre, last.p)
        /\ last.res.ret = Parent(last.pre, last.p)
        /\ start = last.pre.start
        /\ \A q \in 1..Len(inputs) :
              q # Parent(last.pre, last.p) => Offset(Cur, q) = Offset(last.pre, q)

\* a deep Keep that moved its parent while a third cursor stood elsewhere
DeepKeepMovedParent ==
    /\ last.op = "Keep"
    /\ IsDeep(last.pre, last.p)
    /\ Offset(Cur, Parent(last.pre, last.p)) # Offset(last.pre, Parent(last.pre, last.p))
    /\ Offset(Cur, Root) # Offset(Cur, last.p)

OffsetOwnedExclusively ==
    (last.op \in {"Read", "ReadRunes"}) =>
        \A q \in 1..Len(inputs) :
            q # last.p => Offset(Cur, q) = Offset(last.pre, q)

\* C7: when no cursor is used after its own Keep or Discard, a Keep that
\* discards n bytes discards no more than the offset of any cursor still in
\* use, and shifts the stream position of none of them.
KeepDiscardsOnlyRead ==
    (last.op = "Keep" /\ clean /\ start > last.pre.start) =>
        \A q \in 1..Len(inputs) :
            (q \notin done /\ q # last.p /\ q # last.res.ret) =>
                /\ start - last.pre.start <= Offset(last.pre, q)
                /\ Position(Cur, q) = Position(last.pre, q)

\* C8: a predicate matcher that returns no-match leaves the offset of the
\* cursor it was given as it was.
PredicateNoMatchRestores ==
    (last.op = "Match" /\ last.m.k \in {"Bytes", "Runes"} /\ last.res.kind = "nomatch") =>
        Offset(Cur, last.p) = Offset(last.pre, last.p)

\* the first alternative of ms, from i on, that matches on a fresh fork of p
\* (0 when none does)
RECURSIVE FirstMatching(_, _, _, _)
FirstMatching(ms, st, p, i) ==
    IF i > Len(ms) THEN 0
    ELSE IF ForkRun(ms[i], st, p).res.kind = "match" THEN i
    ELSE FirstMatching(ms, st, p, i + 1)

\* every alternative of ms returns a Match or no-match on a fresh fork of p
AllSettle(ms, st, p) ==
    \A i \in 1..Len(ms) : ForkRun(ms[i], st, p).res.kind \in {"match", "nomatch"}

\* C9: First returns the Match of the first alternative that matches, the
\* cursor passed in is then at the end of what that alternative consumed,
\* and First returns no-match only if every alternative fails.
FirstAdvancesCursor ==
    (last.op = "Match" /\ last.m.k = "First" /\ AllSettle(last.m.mtchs, last.pre, last.p)) =>
        IF FirstMatching(last.m.mtchs, last.pre, last.p, 1) = 0
        THEN last.res.kind = "nomatch"
        ELSE /\ last.res = ForkRun(last.m.mtchs[FirstMatching(last.m.mtchs, last.pre, last.p, 1)],
                                   last.pre, last.p).res
             /\ Position(Cur, last.p) =
                    ForkEnd(last.m.mtchs[FirstMatching(last.m.mtchs, last.pre, last.p, 1)],
                            last.pre, last.p)

\* the alternatives of ms that match on a fresh fork of p
Matching(ms, st, p) ==
    {i \in 1..Len(ms) : ForkRun(ms[i], st, p).res.kind = "match"}

\* the first listed of the matching alternatives with the longest content
Winner(ms, st, p) ==
    CHOOSE i \in Matching(ms, st, p) :
        \A j \in Matching(ms, st, p) :
            \/ MatchLength(ForkRun(ms[j], st, p).res.m) < MatchLength(ForkRun(ms[i], st, p).res.m)
            \/ /\ MatchLength(ForkRun(ms[j], st, p).res.m) = MatchLength(ForkRun(ms[i], st, p).res.m)
               /\ i <= j

\* C10: Longest returns the Match of the alternative with the longest
\* content among those that matched, the first listed of them when several
\* share that length, and the cursor passed in is then at the end of the
\* winning branch.
LongestPicksLongest ==
    (/\ last.op = "Match"
     /\ last.m.k = "Longest"
     /\ AllSettle(last.m.ms, last.pre, last.p)
     /\ Matching(last.m.ms, last.pre, last.p) # {}) =>
        /\ last.res = ForkRun(last.m.ms[Winner(last.m.ms, last.pre, last.p)],
                              last.pre, last.p).res
        /\ Position(Cur, last.p) =
               ForkEnd(last.m.ms[Winner(last.m.ms, last.pre, last.p)], last.pre, last.p)

\* two alternatives matched with the same length, a third did not match, and
\* the cursor moved
LongestBrokeTie ==
    /\ last.op = "Match"
    /\ last.m.k = "Longest"
    /\ AllSettle(last.m.ms, last.pre, last.p)
    /\ \E i, j \in Matching(last.m.ms, last.pre, last.p) :
          /\ i < j
          /\ ForkRun(last.m.ms[i], last.pre, last.p).res.m.content =
                 ForkRun(last.m.ms[j], last.pre, last.p).res.m.content
          /\ last.res.m = ForkRun(last.m.ms[i], last.pre, last.p).res.m
          /\ last.res.m # ForkRun(last.m.ms[j], last.pre, last.p).res.m
    /\ Position(Cur, last.p) > Position(last.pre, last.p)

\* C11: when every alternative of Longest returns no-match, Longest returns
\* no-match, and the offset of the cursor passed in and the window start are
\* what they were before the call.
LongestNoMatchRestores ==
    (/\ last.op = "Match"
     /\ last.m.k = "Longest"
     /\ AllSettle(last.m.ms, last.pre, last.p)
     /\ Matching(last.m.ms, last.pre, last.p) = {}) =>
        /\ last.res.kind = "nomatch"
        /\ Offset(Cur, last.p) = Offset(last.pre, last.p)
        /\ start = last.pre.start

\* the bytes of the source from the cursor on
Ahead(st, p) == Drop(stream, st.start + Offset(st, p))

\* how many bytes at the head of s are in pred
RECURSIVE RunOf(_, _)
RunOf(s, pred) ==
    IF s = << >> THEN 0
    ELSE IF Head(s) \notin pred THEN 0
    ELSE 1 + RunOf(Tail(s), pred)

\* C12: Many(t, min, E), E matching one byte of a set: with k occurrences of
\* E at the cursor, Many returns no-match when k < min, and otherwise a
\* Match with exactly those k elements as submatches and a content of their
\* k bytes.
ManyCountsOccurrences ==
    (last.op = "Match" /\ last.m.k = "Many" /\ last.m.mtch.k = "MatchOneFunc") =>
        IF RunOf(Ahead(last.pre, last.p), last.m.mtch.pred) < last.m.min
        THEN last.res.kind = "nomatch"
        ELSE /\ last.res.kind = "match"
             /\ last.res.m.tag = last.m.t
             /\ Len(last.res.m.sub) = RunOf(Ahead(last.pre, last.p), last.m.mtch.pred)
             /\ \A i \in 1..Len(last.res.m.sub) :
                   last.res.m.sub[i] =
                       MakeMatch(last.m.mtch.t, <<Ahead(last.pre, last.p)[i]>>, << >>)
             /\ last.res.m.content =
                    Take(Ahead(last.pre, last.p), Len(last.res.m.sub))

\* C13: Optional(m) never returns no-match: when m does not match, it
\* returns a Match tagged None with empty content and the cursor's offset is
\* what it was before the call; when m matches, it returns m's Match.
OptionalAlwaysMatches ==
    (last.op = "Match" /\ last.m.k = "Optional") =>
        /\ last.res.kind # "nomatch"
        /\ (ForkRun(last.m.mtch, last.pre, last.p).res.kind = "nomatch") =>
              /\ last.res.kind = "match"
              /\ last.res.m.tag = TagNone
              /\ Len(last.res.m.content) = 0
              /\ Offset(Cur, last.p) = Offset(last.pre, last.p)
              /\ start = last.pre.start
        /\ (ForkRun(last.m.mtch, last.pre, last.p).res.kind = "match") =>
              last.res = ForkRun(last.m.mtch, last.pre, last.p).res

\* an Optional whose matcher read a byte and did not match
OptionalOfNoMatch ==
    /\ last.op = "Match"
    /\ last.m.k = "Optional"
    /\ last.m.mtch.k = "Bytes"
    /\ ForkRun(last.m.mtch, last.pre, last.p).res.kind = "nomatch"
    /\ Ahead(last.pre, last.p) # << >>
    /\ last.res.m.tag = TagNone
    /\ Offset(last.pre, last.p) > 0

\* the bytes of the source the call made last moved its cursor over
Consumed == SubSeq(stream, Position(last.pre, last.p) + 1, Position(Cur, last.p))

\* C14: when every step of Seq(t, m1..mk) matches, Seq returns a Match
\* tagged t whose Submatch is the k step results in order and whose Content
\* is the bytes the steps consumed, one after another.
SeqContentIsConsumed ==
    (last.op = "Match" /\ last.m.k = "Seq" /\ last.res.kind = "match") =>
        /\ last.res.m.tag = last.m.t
        /\ Len(last.res.m.sub) = Len(last.m.mtchs)
        /\ last.res.m.content = ContentOf(last.res.m.sub)
        /\ last.res.m.content = Consumed

\* C15: the phone number grammar run on a fresh root cursor over
\* "555-555-5555" returns a Match with that content and five submatches, the
\* two hyphen submatches not empty.
PhoneNumberMatches ==
    (/\ last.op = "Match"
     /\ last.m = MatchPhoneNumber
     /\ last.p = Root
     /\ last.pre = NewInput
     /\ stream = Contact) =>
        /\ last.res.kind = "match"
        /\ last.res.m.content = Contact
        /\ Len(last.res.m.sub) = 5
        /\ last.res.m.sub[2].content = <<Hyphen>>
        /\ last.res.m.sub[4].content = <<Hyphen>>

\* C16: the phone number grammar run over "55-555-5555" returns no-match
\* and leaves the cursor where it was.
ShortPhoneNumberRestores ==
    (/\ last.op = "Match"
     /\ last.m = MatchPhoneNumber
     /\ stream = ShortContact
     /\ Ahead(last.pre, last.p) = ShortContact) =>
        /\ last.res.kind = "nomatch"
        /\ Position(Cur, last.p) = Position(last.pre, last.p)
        /\ Offset(Cur, last.p) = Offset(last.pre, last.p)
        /\ start = last.pre.start

\* C17: NBytes(t, from, to, pred) at a cursor followed by a run of r bytes
\* that satisfy pred and then by a byte that does not: when r >= from it
\* returns a Match tagged t whose content is the first min(r, to) bytes of
\* the run, and otherwise no-match.
NBytesMatchesRun ==
    (/\ last.op = "Match"
     /\ last.m.k = "Bytes"
     /\ 1 <= last.m.from
     /\ last.m.from <= last.m.to
     /\ RunOf(Ahead(last.pre, last.p), last.m.pred) < Len(Ahead(last.pre, last.p))) =>
        IF RunOf(Ahead(last.pre, last.p), last.m.pred) >= last.m.from
        THEN /\ last.res.kind = "match"
             /\ last.res.m.tag = last.m.t
             /\ last.res.m.content =
                    Take(Ahead(last.pre, last.p),
                         Min(RunOf(Ahead(last.pre, last.p), last.m.pred), last.m.to))
        ELSE last.res.kind = "nomatch"

\* C18: OneByte(t, preds...) at a cursor with a byte ahead: when that byte
\* satisfies a predicate it returns a Match tagged t whose content is that
\* byte, and otherwise no-match.
OneByteMatchesOne ==
    (/\ last.op = "Match"
     /\ last.m.k = "Bytes"
     /\ last.m.from = 0
     /\ last.m.to = 0
     /\ Ahead(last.pre, last.p) # << >>) =>
        IF Head(Ahead(last.pre, last.p)) \in last.m.pred
        THEN /\ last.res.kind = "match"
             /\ last.res.m.tag = last.m.t
             /\ last.res.m.content = <<Head(Ahead(last.pre, last.p))>>
        ELSE last.res.kind = "nomatch"

\* how many elements the text s starts with, each a byte of E, with one
\* byte of S between one element and the next
RECURSIVE MoreElements(_, _, _)
MoreElements(s, E, S) ==
    IF Len(s) >= 2 /\ s[1] \in S /\ s[2] \in E
    THEN 1 + MoreElements(Drop(s, 2), E, S)
    ELSE 0

Elements(s, E, S) ==
    IF s = << >> THEN 0
    ELSE IF Head(s) \notin E THEN 0
    ELSE 1 + MoreElements(Tail(s), E, S)

\* C19: ManyWithSep(t, min, E, S), E and S matching one byte each: a Match
\* returned has the matched elements, and no separator, as Submatch in
\* order, and as Content the elements and the separators between them as
\* they stand in the input; no-match is returned when fewer than min
\* elements were collected, and only then.
ManyWithSepFoldsSeparators ==
    (/\ last.op = "Match"
     /\ last.m.k = "ManyWithSep"
     /\ last.res.kind \in {"match", "nomatch"}) =>
        /\ (last.res.kind = "nomatch") <=>
               (Elements(Ahead(last.pre, last.p), last.m.mtch.pred, last.m.sep.pred)
                    < last.m.min)
        /\ (last.res.kind = "match") =>
              /\ last.res.m.tag = last.m.t
              /\ Len(last.res.m.sub) =
                     Elements(Ahead(last.pre, last.p), last.m.mtch.pred, last.m.sep.pred)
              /\ \A i \in 1..Len(last.res.m.sub) :
                    last.res.m.sub[i] =
                        MakeMatch(last.m.mtch.t, <<Ahead(last.pre, last.p)[2 * i - 1]>>, << >>)
              /\ last.res.m.content =
                     Take(Ahead(last.pre, last.p), 2 * Len(last.res.m.sub) - 1)

\* two elements with a separator between them were matched
ManyWithSepTookTwo ==
    /\ last.op = "Match"
    /\ last.m.k = "ManyWithSep"
    /\ last.m.min = 2
    /\ last.res.kind = "match"
    /\ Len(last.res.m.sub) = 2
    /\ Len(last.res.m.content) = 3
    /\ last.res.m.content[2] \in last.m.sep.pred

\* step i of the SeqNamed m matches in the text a
StepMatches(m, a, i) == i <= Len(a) /\ a[i] \in m.ms[i].pred

\* the first step of m that does not match in a
FirstFailing(m, a) ==
    CHOOSE f \in 1..Len(m.ms) :
        ~StepMatches(m, a, f) /\ \A j \in 1..(f - 1) : StepMatches(m, a, j)

\* what SeqNamed does, as the claims state it, on the text a ahead of the
\* cursor: all steps in Submatch, their contents as Content, the named
\* steps in Group; no-match at the first failing step
SeqNamedAsStated(m, a) ==
    IF \A i \in 1..Len(m.ms) : StepMatches(m, a, i)
    THEN /\ last.res.kind = "match"
         /\ last.res.m.tag = m.t
         /\ last.res.m.sub = [i \in 1..Len(m.ms) |-> MakeMatch(m.ms[i].t, <<a[i]>>, << >>)]
         /\ last.res.m.content = Take(a, Len(m.ms))
         /\ DOMAIN last.res.m.group = {m.names[i] : i \in 1..Len(m.ms)} \ {""}
         /\ \A i \in 1..Len(m.ms) :
               m.names[i] # "" => last.res.m.group[m.names[i]] = last.res.m.sub[i]
    ELSE /\ last.res.kind = "nomatch"
         /\ Position(Cur, last.p) = Position(last.pre, last.p) + FirstFailing(m, a) - 1

\* no name other than "" is given to two steps
NamesDistinct(m) ==
    \A i, j \in 1..Len(m.names) :
        (i # j /\ m.names[i] # "") => m.names[i] # m.names[j]

\* C20, as stated: when every step of SeqNamed matches, the Match has all
\* step results in Submatch in order, their contents as Content, and a Group
\* with exactly the steps named other than "", each mapped to its step's
\* Match; when a step fails, SeqNamed returns no-match without running the
\* later steps.
SeqNamedGroupsEveryName ==
    (/\ last.op = "Match"
     /\ last.m.k = "SeqNamed"
     /\ last.res.kind \in {"match", "nomatch"}) =>
        SeqNamedAsStated(last.m, Ahead(last.pre, last.p))

\* C20, amended: the same, for steps whose names other than "" are distinct.
SeqNamedGroupsDistinctNames ==
    (/\ last.op = "Match"
     /\ last.m.k = "SeqNamed"
     /\ NamesDistinct(last.m)
     /\ last.res.kind \in {"match", "nomatch"}) =>
        SeqNamedAsStated(last.m, Ahead(last.pre, last.p))

\* a SeqNamed of three steps, the second named "", matched
SeqNamedGrouped ==
    /\ last.op = "Match"
    /\ last.m.k = "SeqNamed"
    /\ NamesDistinct(last.m)
    /\ last.res.kind = "match"
    /\ Len(last.res.m.sub) = 3
    /\ DOMAIN last.res.m.group = {"area", "local"}

\* no sub-matcher returned a fault
NoFault(st) == [st |-> st, res |-> [kind |-> "none", m |-> NilMatch, err |-> "nil"]]

\* the first fault among the alternatives ms from i on, each run on a fresh
\* fork of p, up to the first that matches when first is TRUE: what that
\* alternative returned and the heap it left
RECURSIVE FaultInAlternatives(_, _, _, _, _)
FaultInAlternatives(ms, st, p, i, first) ==
    IF i > Len(ms) THEN NoFault(st)
    ELSE IF ForkRun(ms[i], st, p).res.kind = "err" THEN ForkRun(ms[i], st, p)
    ELSE IF ForkRun(ms[i], st, p).res.kind = "panic" THEN NoFault(st)
    ELSE IF first /\ ForkRun(ms[i], st, p).res.kind = "match" THEN NoFault(st)
    ELSE FaultInAlternatives(ms, ForkRun(ms[i], st, p).st, p, i + 1, first)

\* the first fault among the steps ms from i on, run one after another on p
RECURSIVE FaultInSteps(_, _, _, _)
FaultInSteps(ms, st, p, i) ==
    IF i > Len(ms) THEN NoFault(st)
    ELSE IF Eval(ms[i], st, p).res.kind = "err" THEN Eval(ms[i], st, p)
    ELSE IF Eval(ms[i], st, p).res.kind = "match"
    THEN FaultInSteps(ms, Eval(ms[i], st, p).st, p, i + 1)
    ELSE NoFault(st)

\* the first fault among the runs of the matchers of ms taken in turn, over
\* and over (ms[i] first), on p, for as long as they match
RECURSIVE FaultInRepeats(_, _, _, _)
FaultInRepeats(ms, st, p, i) ==
    IF Eval(ms[i], st, p).res.kind = "err" THEN Eval(ms[i], st, p)
    ELSE IF Eval(ms[i], st, p).res.kind = "match"
    THEN FaultInRepeats(ms, Eval(ms[i], st, p).st, p, (i % Len(ms)) + 1)
    ELSE NoFault(st)

\* the first fault a sub-matcher of the combinator m returns when m runs on
\* p in the heap st
FirstFault(m, st, p) ==
    CASE m.k = "First" -> FaultInAlternatives(m.mtchs, st, p, 1, TRUE)
      [] m.k = "Longest" -> FaultInAlternatives(m.ms, st, p, 1, FALSE)
      [] m.k = "Many" -> FaultInRepeats(<<m.mtch>>, st, p, 1)
      [] m.k = "ManyWithSep" -> FaultInRepeats(<<m.mtch, m.sep>>, st, p, 1)
      [] m.k = "Seq" -> FaultInSteps(m.mtchs, st, p, 1)
      [] m.k = "SeqNamed" -> FaultInSteps(m.ms, st, p, 1)
      [] m.k = "Optional" -> FaultInAlternatives(<<m.mtch>>, st, p, 1, TRUE)
      [] m.k = "TryAndKeep" -> FaultInAlternatives(<<m.mtch>>, st, p, 1, TRUE)
      [] OTHER -> NoFault(st)

\* C21: when a sub-matcher of First, Longest, Many, ManyWithSep, Seq,
\* SeqNamed, Optional or TryAndKeep returns an error, the combinator returns
\* that error and no Match, and the heap is as that sub-matcher left it: no
\* alternative, element or step ran after it.
FaultsPropagate ==
    (/\ last.op = "Match"
     /\ FirstFault(last.m, last.pre, last.p).res.kind = "err") =>
        /\ last.res = FirstFault(last.m, last.pre, last.p).res
        /\ last.res.kind = "err"
        /\ last.res.err # "nil"
        /\ last.res.m.nil
        /\ Eval(last.m, last.pre, last.p) = FirstFault(last.m, last.pre, last.p)

\* the second step, element or alternative of a combinator returned a fault
FaultAfterProgress ==
    /\ last.op = "Match"
    /\ last.m.k \in {"Seq", "SeqNamed", "Many", "ManyWithSep", "Longest"}
    /\ FirstFault(last.m, last.pre, last.p).res.kind = "err"
    /\ last.res.kind = "err"
    /\ Len(FirstFault(last.m, last.pre, last.p).st.inputs) > Len(last.pre.inputs) + 2

\* C22: a Read of n >= 1 bytes on a cursor at offset off, the source
\* holding at least off + n bytes past the window start, returns those n
\* bytes and no error and drops nothing from the buffer, whatever the size
\* the Buffer was made with.
LookAheadAtAnyOffset ==
    (/\ last.op = "Read"
     /\ last.arg >= 1
     /\ Len(stream) - last.pre.start >= Offset(last.pre, last.p) + last.arg) =>
        /\ last.res.err = "nil"
        /\ last.res.n = last.arg
        /\ last.res.bytes = SubSeq(stream, last.pre.start + Offset(last.pre, last.p) + 1,
                                   last.pre.start + Offset(last.pre, last.p) + last.arg)
        /\ start = last.pre.start

\* the bytes the source still holds from the offset of p on, counted
Remaining(st, p) == Len(stream) - st.start - Offset(st, p)

\* C23: a Read of len bytes, which is Buffer.peek(offset, len), returns the
\* k bytes left, with the end of input as its error, when the source ends
\* with 0 < k < len bytes from the offset on, and returns fewer than len
\* bytes in no other situation.
PeekReturnsPartialAtEnd ==
    (last.op = "Read") =>
        /\ (0 < Remaining(last.pre, last.p) /\ Remaining(last.pre, last.p) < last.arg) =>
              /\ last.res.n = Remaining(last.pre, last.p)
              /\ last.res.bytes = Ahead(last.pre, last.p)
              /\ last.res.err = "EOF"
        /\ (last.res.n < last.arg) => Remaining(last.pre, last.p) < last.arg

\* C24: ReadRunes for one code point, the cursor standing before the whole
\* encoding of a code point of two or more bytes, returns that code point,
\* its width in bytes and no error.
ReadRunesKeepsCodePointWhole ==
    (/\ last.op = "ReadRunes"
     /\ last.arg = 1
     /\ DecodeRune(Ahead(last.pre, last.p)).n >= 2) =>
        /\ last.res.err = "nil"
        /\ last.res.rs = <<DecodeRune(Ahead(last.pre, last.p)).r>>
        /\ last.res.n = DecodeRune(Ahead(last.pre, last.p)).n

\* goroutine g is inside Read or ReadRunes, between Lock and Unlock
Reading(g) == gos.run[g].pc \in {"peek", "add", "unlock"}

\* C25: a byte peek, a code-point peek and a discard are executed by a
\* goroutine that holds the Buffer's lock, and the discard of Keep is not
\* executed while another goroutine is inside a Read or ReadRunes on the
\* same Buffer.
BufferCallsHoldLock ==
    /\ (last.op \in {"peek", "discard"} /\ ~panicked) => gos.lock = last.arg
    /\ (last.op = "discard") =>
           \A h \in Threads : h # last.arg => ~Reading(h)

\* C26: every cursor's offset lies between 0 and the number of bytes the
\* source holds from the window start on; a Read or ReadRunes does not
\* decrease the offset of its cursor; MayFail does not change the offset
\* of the parent; no call on a cursor other than Keep changes the offset of
\* that cursor's parent.
OffsetsWithinWindow ==
    /\ \A q \in 1..Len(inputs) :
          0 <= Offset(Cur, q) /\ Offset(Cur, q) <= Len(stream) - start
    /\ (last.op \in {"Read", "ReadRunes"}) =>
          Offset(Cur, last.p) >= Offset(last.pre, last.p)
    /\ (last.op = "MayFail") =>
          Offset(Cur, last.p) = Offset(last.pre, last.p)
    /\ (last.op \in {"Read", "ReadRunes", "MayFail", "Discard"}
            /\ Parent(last.pre, last.p) # 0) =>
          Offset(Cur, Parent(last.pre, last.p)) = Offset(last.pre, Parent(last.pre, last.p))

\* C27: every Tag NextTag returns is greater than every Tag it returned
\* before and greater than None, Literal and Last; no Tag is returned twice.
TagsAreFresh ==
    \A i \in 1..Len(issued) :
        /\ issued[i] > TagNone
        /\ issued[i] > TagLiteral
        /\ issued[i] > TagLast
        /\ \A j \in 1..(i - 1) : issued[j] < issued[i]

\* NextTag has been called many times
ManyTagsIssued ==
    /\ Len(issued) = MaxTags
    /\ issued[1] = TagLast + 1
    /\ issued[MaxTags] = TagLast + MaxTags

\* C28: for every unit u and predicates p, p1, p2, bytes and code points
\* alike: Any(p1, p2)(u) holds iff p1(u) or p2(u); Not(p)(u) holds iff p(u)
\* does not; ThisButNotThat(p1, p2)(u) holds iff p1(u) and not p2(u).
PredicateAlgebra ==
    /\ (last.op \in {"AnyBytes", "AnyRunes"}) =>
          (last.res.ok <=> (last.arg.u \in last.arg.preds[1] \/ last.arg.u \in last.arg.preds[2]))
    /\ (last.op \in {"NotBytes", "NotRunes"}) =>
          (last.res.ok <=> last.arg.u \notin last.arg.preds[1])
    /\ (last.op \in {"ThisButNotThatBytes", "ThisButNotThatRunes"}) =>
          (last.res.ok <=> (last.arg.u \in last.arg.preds[1] /\ last.arg.u \notin last.arg.preds[2]))

\* a byte that the first predicate holds for was refused because the second
\* holds for it too
ThatRefused ==
    /\ last.op = "ThisButNotThatBytes"
    /\ last.arg.u \in last.arg.preds[1]
    /\ last.arg.u \in last.arg.preds[2]
    /\ ~last.res.ok

\* C29: when Bytes.Match or Runes.Match returns a Match, the cursor has
\* advanced by len(Content) bytes and Content is the bytes it advanced over;
\* a unit read in the greedy extension that failed the predicate is not
\* among them.
PredicateMatchConsumesContent ==
    (/\ last.op = "Match"
     /\ last.m.k \in {"Bytes", "Runes"}
     /\ last.res.kind = "match") =>
        /\ start = last.pre.start
        /\ Offset(Cur, last.p) = Offset(last.pre, last.p) + Len(last.res.m.content)
        /\ last.res.m.content = Take(Ahead(last.pre, last.p), Len(last.res.m.content))

\* C30: ManyWithSep over an element and a separator that each restore the
\* cursor when they do not match: when it returns a Match, the cursor has
\* advanced by len(Content), so a separator that matched with no element
\* after it is neither in the Content nor consumed.
ManyWithSepConsumesContent ==
    (/\ last.op = "Match"
     /\ last.m.k = "ManyWithSep"
     /\ last.m.mtch.k = "MatchOneFunc"
     /\ last.m.sep.k = "MatchOneFunc"
     /\ last.res.kind = "match") =>
        /\ Position(Cur, last.p) = Position(last.pre, last.p) + Len(last.res.m.content)
        /\ Consumed = last.res.m.content

\* the text s starts with the whole, valid encoding of a code point
WholeRune(s) ==
    /\ s # << >>
    /\ FullRune(s)
    /\ ~(DecodeRune(s).r = RuneError /\ DecodeRune(s).n <= 1)

\* the text s starts with k whole, valid code points
RECURSIVE HoldsRunes(_, _)
HoldsRunes(s, k) ==
    \/ k = 0
    \/ WholeRune(s) /\ HoldsRunes(Drop(s, DecodeRune(s).n), k - 1)

\* the first k code points of s, and the number of bytes of their encodings
RECURSIVE RunesOf(_, _)
RunesOf(s, k) ==
    IF k = 0 THEN << >>
    ELSE <<DecodeRune(s).r>> \o RunesOf(Drop(s, DecodeRune(s).n), k - 1)

RECURSIVE WidthOf(_, _)
WidthOf(s, k) ==
    IF k = 0 THEN 0
    ELSE DecodeRune(s).n + WidthOf(Drop(s, DecodeRune(s).n), k - 1)

\* C31: ReadRunes for count code points, the source holding at least count
\* whole, valid code points from the cursor's offset on, returns without a
\* panic and without an error those code points in order, and moves the
\* cursor's offset forward by the bytes of their encodings.
ReadRunesReturnsCodePoints ==
    (/\ last.op = "ReadRunes"
     /\ last.arg >= 1
     /\ HoldsRunes(Ahead(last.pre, last.p), last.arg)) =>
        /\ ~panicked
        /\ last.res.err = "nil"
        /\ last.res.rs = RunesOf(Ahead(last.pre, last.p), last.arg)
        /\ last.res.n = WidthOf(Ahead(last.pre, last.p), last.arg)
        /\ Offset(Cur, last.p) =
               Offset(last.pre, last.p) + WidthOf(Ahead(last.pre, last.p), last.arg)


\* C32: Many and ManyWithSep return (or fail) on every finite input,
\* whatever the element and separator matchers.  The matchers are
\* functions of the heap and the cursor, so a loop that stands at the top
\* of its body in the heap it stood in one round before runs for ever: a
\* loop that terminates never does.
LoopsTerminate == (loop.pc = "elem" /\ loop.n > 0) => Cur # loop.was

\* C33: the end of the stream, met while a matcher reads its next unit, is
\* a no-match and not an error: a OneByte, NBytes, OneRune or NRunes run at
\* the end of input returns no-match with a nil error, a Many whose
\* elements reach the end of the input returns its Match, and an Optional
\* run at the end of input returns the empty None match.
EndOfInputIsNoMatch ==
    /\ (/\ last.op = "Match"
        /\ last.m.k \in {"Bytes", "Runes"}
        /\ Ahead(last.pre, last.p) = << >>) =>
           (last.res.kind = "nomatch" /\ last.res.err = "nil")
    /\ (/\ last.op = "Match"
        /\ last.m.k = "Many"
        /\ last.m.mtch.k = "MatchOneFunc"
        /\ RunOf(Ahead(last.pre, last.p), last.m.mtch.pred) = Len(Ahead(last.pre, last.p))
        /\ Len(Ahead(last.pre, last.p)) >= last.m.min) =>
           (last.res.kind = "match" /\ last.res.err = "nil")
    /\ (/\ last.op = "Match"
        /\ last.m.k = "Optional"
        /\ Ahead(last.pre, last.p) = << >>) =>
           (last.res.kind = "match" /\ last.res.err = "nil" /\ last.res.m.tag = TagNone)


\* C34: an Input made by NewSize behaves as one made by New: the Read made
\* on the root right after a Keep that committed to the root returns the
\* bytes of the source that follow the committed ones, when that many are
\* left.
NewSizeReadsFollowKeep ==
    (/\ last.op = "Read"
     /\ last.kept >= 0
     /\ last.kept + last.arg <= Len(stream)) =>
        /\ last.res.err = "nil"
        /\ last.res.bytes = SubSeq(stream, last.kept + 1, last.kept + last.arg)


\* the last argument of the Trace call made last ("none" when it has none)
LastArg == IF last.arg.args = << >> THEN "none" ELSE last.arg.args[Len(last.arg.args)]

\* C35: with a TraceFunc registered, a call of Trace calls the TraceFunc
\* exactly once, at each of the three stages: trying, succeeded with the
\* Match as the last argument, failed with the error as the last argument.
TraceCallsTraceFunc ==
    (/\ last.op = "Trace"
     /\ last.arg.registered
     /\ \/ last.arg.stage = "StageTry" /\ LastArg \notin {"error", "match"}
        \/ last.arg.stage = "StageGot" /\ LastArg = "match"
        \/ last.arg.stage = "StageFail" /\ LastArg = "error") =>
        last.res.calls = 1

============================================================================
